---- MODULE Spec2Model ----
(***************************************************************************)
(* Model of the tournament lifecycle, forecast submission and scoring of   *)
(* podvalchik_bot (app/handlers/tournament_management.py,                  *)
(* app/handlers/prediction.py, app/core/scoring.py, app/db/models.py).     *)
(*                                                                         *)
(* The committed database is the variables tournaments, forecasts, users   *)
(* and nextForecastId.  The Redis FSM storage is admin_fsm (operators) and *)
(* user_fsm (participants).  A handler is one action: the database         *)
(* transaction it runs is atomic, and several handlers of one chat flow    *)
(* interleave with the handlers of other operators and participants.       *)
(***************************************************************************)
EXTENDS Integers, Sequences, FiniteSets, TLC

(* ------------------------------ bounds -------------------------------- *)
NumAdmins == 1
NumUsers == 1
NumPlayers == 2
MaxTournaments == 1
MaxSlots == 1
MaxForecasts == 2
MaxDeliveries == 2
MaxSeasons == 2
MaxScoreLen == 3
MaxEvents == 5

(* The operators of Spec, and the operators of SpecRace: one more, acting  *)
(* at the same time.                                                       *)
Admins == 1..NumAdmins
Operators == 1..(NumAdmins + 1)
Users == 1..NumUsers
Players == 1..NumPlayers

(* NULL column value of a nullable Integer column / an absent FSM key.     *)
NULL == -1

VARIABLES
    tournaments,     \* table tournaments + tournament_participants
    forecasts,       \* table forecasts: a set of rows
    nextForecastId,  \* autoincrement of forecasts.id
    users,           \* table users: running statistics
    admin_fsm,       \* Redis FSM context of every operator
    setup_buttons,   \* add/remove buttons an operator has been shown
    user_fsm,        \* Redis FSM context of every participant
    deliveries,      \* confirm_forecast:yes callbacks accepted, body not run
    seasons,         \* table seasons: a set of rows
    season_results,  \* table season_results: a set of rows
    today,           \* the current date, in days since FIRST_SEASON_START
    calc,            \* arguments and return value of a call followed
    last             \* the handler that ran last and its outcome

vars == <<tournaments, forecasts, nextForecastId, users, admin_fsm,
          setup_buttons, user_fsm, deliveries, seasons, season_results,
          today, calc, last>>

db == <<tournaments, forecasts, nextForecastId, users>>

(* ------------------------- sequence helpers --------------------------- *)
Range(s) == {s[i] : i \in 1..Len(s)}

RECURSIVE SumSeq(_)
SumSeq(s) == IF s = <<>> THEN 0 ELSE s[1] + SumSeq(Tail(s))

Abs(x) == IF x < 0 THEN -x ELSE x

(* The value n/d in hundredths cut off after the second decimal.           *)
RoundDown(n, d) == n \div d

(* round(x, 2) of the value n/d expressed in hundredths: nearest integer,  *)
(* ties to even.                                                           *)
Round(n, d) ==
    LET q == n \div d
        r == n % d
    IN  IF 2 * r < d THEN q
        ELSE IF 2 * r > d THEN q + 1
        ELSE IF q % 2 = 0 THEN q ELSE q + 1

(* ------------------------------ scoring ------------------------------- *)
(* {player_id: rank + 1 for rank, player_id in enumerate(results_list)}    *)
ResultsDict(results_list) ==
    [p \in Range(results_list) |->
        CHOOSE i \in 1..Len(results_list) :
            /\ results_list[i] = p
            /\ \A j \in 1..Len(results_list) : results_list[j] = p => j <= i]

(* The error of a slot, with no error counted for an absent player.       *)
SlotDiffAbsentZero(prediction_data, results_data, i) ==
    IF prediction_data[i] \in DOMAIN results_data
    THEN Abs(i - results_data[prediction_data[i]])
    ELSE 0

SlotDiff(prediction_data, results_data, i) ==
    IF prediction_data[i] \in DOMAIN results_data
    THEN Abs(i - results_data[prediction_data[i]])
    ELSE Len(prediction_data)

(* The points of a slot, with 3 points for an exact slot.                  *)
SlotPointsExactThree(prediction_data, results_data, i) ==
    IF prediction_data[i] \in DOMAIN results_data
    THEN IF Abs(i - results_data[prediction_data[i]]) = 0 THEN 3 ELSE 1
    ELSE 0

SlotPoints(prediction_data, results_data, i) ==
    IF prediction_data[i] \in DOMAIN results_data
    THEN IF Abs(i - results_data[prediction_data[i]]) = 0 THEN 5 ELSE 1
    ELSE 0

(* A hit counted for every player of the results, whatever the rank.      *)
SlotHitAnyRank(prediction_data, results_data, i) ==
    IF prediction_data[i] \in DOMAIN results_data THEN 1 ELSE 0

SlotHit(prediction_data, results_data, i) ==
    IF /\ prediction_data[i] \in DOMAIN results_data
       /\ Abs(i - results_data[prediction_data[i]]) = 0
    THEN 1 ELSE 0

(* The bonus decided against the size of the results dictionary.          *)
calculate_forecast_points_vs_results(prediction_data, results_data) ==
    LET slots_count == Len(prediction_data)
        diffs == [i \in 1..slots_count |->
                    SlotDiff(prediction_data, results_data, i)]
        exact_hits == SumSeq([i \in 1..slots_count |->
                    SlotHit(prediction_data, results_data, i)])
        base == SumSeq([i \in 1..slots_count |->
                    SlotPoints(prediction_data, results_data, i)])
        bonus == IF /\ exact_hits = Cardinality(DOMAIN results_data)
                    /\ slots_count > 0
                 THEN 15 ELSE 0
    IN  [points |-> base + bonus, diffs |-> diffs, exact_hits |-> exact_hits]

calculate_forecast_points(prediction_data, results_data) ==
    LET slots_count == Len(prediction_data)
        diffs == [i \in 1..slots_count |->
                    SlotDiff(prediction_data, results_data, i)]
        exact_hits == SumSeq([i \in 1..slots_count |->
                    SlotHit(prediction_data, results_data, i)])
        base == SumSeq([i \in 1..slots_count |->
                    SlotPoints(prediction_data, results_data, i)])
        bonus == IF exact_hits = slots_count /\ slots_count > 0 THEN 15 ELSE 0
    IN  [points |-> base + bonus, diffs |-> diffs, exact_hits |-> exact_hits]

(* accuracy_rate and avg_error are kept in hundredths (the code rounds     *)
(* both to 2 decimals).                                                    *)
calculate_new_stats(old_total_points, old_accuracy, old_mae, total_slots_before, new_forecast_points, new_forecast_diffs, new_forecast_exact_hits) ==
    LET new_slots_count == Len(new_forecast_diffs)
        total_slots_after == total_slots_before + new_slots_count
        new_mae ==
            IF total_slots_after > 0
            THEN Round(old_mae * total_slots_before
                         + 100 * SumSeq(new_forecast_diffs),
                       total_slots_after)
            ELSE 0
        new_accuracy ==
            IF total_slots_after > 0
            THEN Round(old_accuracy * total_slots_before
                         + 10000 * new_forecast_exact_hits,
                       total_slots_after)
            ELSE 0
    IN  [total_points |-> old_total_points + new_forecast_points,
         accuracy_rate |-> new_accuracy,
         avg_error |-> new_mae]

(* ------------------------------ seasons ------------------------------- *)
(* get_season_number: 0 before FIRST_SEASON_START, else weeks elapsed + 1. *)
get_season_number(date_obj) ==
    IF date_obj < 0 THEN 0 ELSE (date_obj \div 7) + 1

(* A window that ends on the Monday of the next season.                    *)
get_season_dates_to_monday(season_number) ==
    LET start_date == 7 * (season_number - 1)
    IN  <<start_date, start_date + 7>>

(* get_season_dates: <<start (Monday), end (Sunday)>> of a season.         *)
get_season_dates(season_number) ==
    LET start_date == 7 * (season_number - 1)
    IN  <<start_date, start_date + 6>>

(* The dates an operator enters for a tournament: a day before the first   *)
(* season, and the first and last day of every season up to MaxSeasons.    *)
EventDates ==
    {-1} \cup {get_season_dates(n)[1] : n \in 1..MaxSeasons}
         \cup {get_season_dates(n)[2] : n \in 1..MaxSeasons}

(* ------------------------------ records ------------------------------- *)
NewUser ==
    [total_points |-> 0, total_slots |-> 0, tournaments_played |-> 0,
     exact_guesses |-> 0, perfect_tournaments |-> 0,
     accuracy_rate |-> 0, avg_error |-> 0,
     streak_days |-> 0, max_streak |-> 0]

EmptyResults == [p \in {} |-> 0]

(* Dates are counted in days from FIRST_SEASON_START (day 0, a Monday).    *)
NewTournament(count, date) ==
    [status |-> "DRAFT", prediction_count |-> count, date |-> date,
     results |-> EmptyResults, participants |-> {}]

(* No scoring call is being followed.                                      *)
NoCalc == [kind |-> "none"]

(* state.clear(): no state, no data.                                       *)
AdminCleared ==
    [state |-> "none", managed_tournament_id |-> NULL,
     selected_player_id |-> NULL, results_list |-> <<>>,
     prediction_count |-> NULL, kb |-> {}]

UserCleared ==
    [state |-> "none", tournament_id |-> NULL, forecast_list |-> <<>>,
     editing_forecast_id |-> NULL, prediction_count |-> NULL, kb |-> {}]

(* tournament.prediction_count or 5                                        *)
PredictionCountOr5(t) ==
    IF t.prediction_count = 0 THEN 5 ELSE t.prediction_count

(* The handlers whose outcome is recorded in last; every other handler    *)
(* leaves the record of an unrecorded step.                                *)
Recorded ==
    {"cq_set_results_confirm", "cq_publish_tournament", "migrate_seasons",
     "cq_delete_tournament_execute"}

DoneArg(op, who, tid, outcome, arg) ==
    IF op \in Recorded
    THEN [op |-> op, tid |-> tid, outcome |-> outcome, arg |-> arg,
          sent |-> {}, summary |-> FALSE]
    ELSE [op |-> "other", tid |-> NULL, outcome |-> "ok", arg |-> NULL,
          sent |-> {}, summary |-> FALSE]

Done(op, who, tid, outcome) == DoneArg(op, who, tid, outcome, NULL)

Init ==
    /\ tournaments = [t \in {} |-> NewTournament(1, 0)]
    /\ forecasts = {}
    /\ nextForecastId = 1
    /\ users = [u \in Users |-> NewUser]
    /\ admin_fsm = [a \in Operators |-> AdminCleared]
    /\ setup_buttons = [a \in Operators |-> {}]
    /\ user_fsm = [u \in Users |-> UserCleared]
    /\ deliveries = [u \in Users |-> <<>>]
    /\ seasons = {}
    /\ season_results = {}
    /\ today = 0
    /\ calc = NoCalc
    /\ last = Done("init", 0, NULL, "ok")

(* --------------------- operator menus (FSM writes) -------------------- *)
(* cmd_manage_tournaments: state.clear(), then choosing_tournament.        *)
ManageTournamentsFsm == [AdminCleared EXCEPT !.state = "choosing_tournament"]

(* show_tournament_menu: FSM context after the menu of tid was requested,  *)
(* read against the tournaments table ts.  The data keys of an abandoned   *)
(* flow (results_list, prediction_count, selected_player_id) stay in Redis *)
(* but every flow overwrites them before it reads them; they are kept at   *)
(* their cleared value outside the flow that uses them.                    *)
show_tournament_menu(fsm, tid, ts) ==
    IF tid \in DOMAIN ts
    THEN [AdminCleared EXCEPT !.state = "managing_tournament",
                              !.managed_tournament_id = tid]
    ELSE ManageTournamentsFsm

(* tournament_management_menu_kb: the add/remove buttons are part of the   *)
(* menu only for a DRAFT or OPEN tournament; a sent keyboard stays         *)
(* clickable.                                                              *)
tournament_management_menu_kb(btns, tid, ts) ==
    IF tid \in DOMAIN ts /\ ts[tid].status \in {"DRAFT", "OPEN"}
    THEN btns \cup {tid}
    ELSE btns

(* show_remove_participant_menu.  The keyboard lists the roster of the     *)
(* moment; cq_remove_participant_select checks the pressed player against  *)
(* the stored roster, so a player of any earlier keyboard may be pressed.  *)
show_remove_participant_menu(fsm, ts) ==
    LET tid == fsm.managed_tournament_id IN
    IF ts[tid].participants = {}
    THEN fsm
    ELSE [AdminCleared EXCEPT
                !.state = "removing_participant_choosing_player",
                !.managed_tournament_id = tid]

(* show_add_participant_menu: the keyboard lists every player.             *)
show_add_participant_menu(fsm) ==
    [AdminCleared EXCEPT !.state = "adding_participant_choosing_player",
                         !.managed_tournament_id = fsm.managed_tournament_id]

(* The handlers of the bot neither read nor write the season tables, and   *)
(* no scoring call outlives its handler.                                   *)
SeasonUnchanged == UNCHANGED <<seasons, season_results, today, calc>>

UserUnchanged == UNCHANGED <<user_fsm, deliveries>> /\ SeasonUnchanged
DbUnchanged == UNCHANGED <<tournaments, forecasts, nextForecastId, users>>

(* ------------------- tournament creation, navigation ------------------ *)
cmd_manage_tournaments(a) ==
    /\ admin_fsm' = [admin_fsm EXCEPT ![a] = ManageTournamentsFsm]
    /\ last' = Done("cmd_manage_tournaments", a, NULL, "ok")
    /\ DbUnchanged /\ UserUnchanged /\ UNCHANGED setup_buttons

(* The creation dialogue (tm_create_new, name, date, prediction count) as  *)
(* one step: only its last handler writes to the database.                *)
cq_create_tournament_finish(a, count, date) ==
    /\ admin_fsm[a].state = "choosing_tournament"
    /\ Cardinality(DOMAIN tournaments) < MaxTournaments
    /\ LET tid == Cardinality(DOMAIN tournaments) + 1
           ts == [t \in DOMAIN tournaments \cup {tid} |->
                    IF t = tid THEN NewTournament(count, date)
                    ELSE tournaments[t]]
       IN  /\ tournaments' = ts
           /\ admin_fsm' = [admin_fsm EXCEPT
                    ![a] = show_tournament_menu(AdminCleared, tid, ts)]
           /\ setup_buttons' = [setup_buttons EXCEPT
                    ![a] = tournament_management_menu_kb(@, tid, ts)]
           /\ last' = Done("cq_create_tournament_finish", a, tid, "ok")
    /\ UNCHANGED <<forecasts, nextForecastId, users>> /\ UserUnchanged

(* A deletion that takes the deleted tournament's points back from the    *)
(* users, which the handler does not do.                                   *)
cq_delete_tournament_execute_refunding(a, tid, fk_enforced) ==
    /\ admin_fsm[a].state = "managing_tournament"
    /\ tid \in DOMAIN tournaments
    /\ tournaments' = [t \in DOMAIN tournaments \ {tid} |-> tournaments[t]]
    /\ users' = [u \in Users |->
            [users[u] EXCEPT !.total_points =
                IF \E f \in forecasts : /\ f.user_id = u
                                        /\ f.tournament_id = tid
                                        /\ f.points_earned # NULL
                THEN 0 ELSE @]]
    /\ admin_fsm' = [admin_fsm EXCEPT ![a] = ManageTournamentsFsm]
    /\ last' = Done("cq_delete_tournament_execute", a, tid, "deleted")
    /\ UNCHANGED <<forecasts, nextForecastId, setup_buttons>>
    /\ UserUnchanged

(* The deletion dialogue (tm_delete_<id>, confirm_delete:yes) as one step: *)
(* only its last handler writes to the database.  It runs                  *)
(* delete(Tournament).where(id == tid) and nothing else.  A store that     *)
(* enforces the foreign keys (fk_enforced) rejects the statement while a   *)
(* forecast or a roster row refers to the tournament, and the handler ends *)
(* with the exception; a store that does not removes the tournament row    *)
(* alone.                                                                  *)
cq_delete_tournament_execute(a, tid, fk_enforced) ==
    /\ admin_fsm[a].state = "managing_tournament"
    /\ LET referenced ==
              /\ tid \in DOMAIN tournaments
              /\ \/ \E f \in forecasts : f.tournament_id = tid
                 \/ tournaments[tid].participants # {}
       IN  IF fk_enforced /\ referenced
           THEN /\ last' = Done("cq_delete_tournament_execute", a, tid,
                                "integrity_error")
                /\ UNCHANGED <<tournaments, admin_fsm>>
           ELSE /\ tournaments' = [t \in DOMAIN tournaments \ {tid} |->
                                        tournaments[t]]
                /\ admin_fsm' = [admin_fsm EXCEPT ![a] = ManageTournamentsFsm]
                /\ last' = Done("cq_delete_tournament_execute", a, tid,
                                "deleted")
    /\ UNCHANGED <<forecasts, nextForecastId, users, setup_buttons>>
    /\ UserUnchanged

cq_select_tournament_to_manage(a, tid) ==
    /\ tid \in DOMAIN tournaments
    /\ admin_fsm' = [admin_fsm EXCEPT
            ![a] = show_tournament_menu(AdminCleared, tid, tournaments)]
    /\ setup_buttons' = [setup_buttons EXCEPT
            ![a] = tournament_management_menu_kb(@, tid, tournaments)]
    /\ last' = Done("cq_select_tournament_to_manage", a, tid, "ok")
    /\ DbUnchanged /\ UserUnchanged

(* ------------------------ roster add / remove ------------------------- *)
cq_add_participant_start(a, tid) ==
    /\ tid \in setup_buttons[a]
    /\ tid \in DOMAIN tournaments
    /\ admin_fsm' = [admin_fsm EXCEPT ![a] =
            show_add_participant_menu([@ EXCEPT !.managed_tournament_id = tid])]
    /\ last' = Done("cq_add_participant_start", a, tid, "ok")
    /\ DbUnchanged /\ UserUnchanged /\ UNCHANGED setup_buttons

cq_add_participant_select(a, player_id) ==
    /\ admin_fsm[a].state = "adding_participant_choosing_player"
    /\ player_id \in Players
    /\ admin_fsm' = [admin_fsm EXCEPT ![a] =
            [@ EXCEPT !.selected_player_id = player_id,
                      !.state = "adding_participant_rating_options"]]
    /\ last' = Done("cq_add_participant_select", a,
                    admin_fsm[a].managed_tournament_id, "ok")
    /\ DbUnchanged /\ UserUnchanged /\ UNCHANGED setup_buttons

(* add_player_to_tournament_logic: the roster after the call.              *)
add_player_to_tournament_logic(t, player_id) ==
    IF player_id \notin t.participants
    THEN [t EXCEPT !.participants = @ \cup {player_id}]
    ELSE t

cq_rating_keep(a) ==
    /\ admin_fsm[a].state = "adding_participant_rating_options"
    /\ LET tid == admin_fsm[a].managed_tournament_id
           player_id == admin_fsm[a].selected_player_id
       IN  /\ tid \in DOMAIN tournaments
           /\ tournaments' = [tournaments EXCEPT
                    ![tid] = add_player_to_tournament_logic(@, player_id)]
           /\ IF player_id \notin tournaments[tid].participants
              THEN /\ admin_fsm' = admin_fsm
                   /\ last' = Done("cq_rating_keep", a, tid, "added")
              ELSE /\ admin_fsm' = [admin_fsm EXCEPT
                            ![a] = show_add_participant_menu(@)]
                   /\ last' = Done("cq_rating_keep", a, tid, "duplicate")
    /\ UNCHANGED <<forecasts, nextForecastId, users, setup_buttons>>
    /\ UserUnchanged

cq_remove_participant_start(a, tid) ==
    /\ admin_fsm[a].state = "managing_tournament"
    /\ tid \in setup_buttons[a]
    /\ tid \in DOMAIN tournaments
    /\ admin_fsm' = [admin_fsm EXCEPT ![a] =
            show_remove_participant_menu(
                [@ EXCEPT !.managed_tournament_id = tid], tournaments)]
    /\ last' = Done("cq_remove_participant_start", a, tid, "ok")
    /\ DbUnchanged /\ UserUnchanged /\ UNCHANGED setup_buttons

cq_remove_participant_select(a, player_id) ==
    /\ admin_fsm[a].state = "removing_participant_choosing_player"
    /\ player_id \in Players
    /\ LET tid == admin_fsm[a].managed_tournament_id
           ts == [tournaments EXCEPT ![tid].participants = @ \ {player_id}]
       IN  /\ tid \in DOMAIN tournaments
           /\ tournaments' = ts
           /\ admin_fsm' = [admin_fsm EXCEPT
                    ![a] = show_remove_participant_menu(@, ts)]
           /\ last' = Done("cq_remove_participant_select", a, tid,
                    IF player_id \in tournaments[tid].participants
                    THEN "removed" ELSE "already_removed")
    /\ UNCHANGED <<forecasts, nextForecastId, users, setup_buttons>>
    /\ UserUnchanged

(* ----------------------- publish / lock / reopen ---------------------- *)
(* A status handler: rejected unless the stored status is from_status     *)
(* (and, for publish, the roster is large enough); the menu is shown      *)
(* again only after a change.                                              *)
StatusHandler(op, a, tid, from_status, to_status, needs_roster) ==
    /\ admin_fsm[a].state = "managing_tournament"
    /\ tid \in DOMAIN tournaments
    /\ IF tournaments[tid].status # from_status
       THEN /\ last' = Done(op, a, tid, "wrong_status")
            /\ UNCHANGED <<tournaments, admin_fsm, setup_buttons>>
       ELSE IF /\ needs_roster
               /\ Cardinality(tournaments[tid].participants)
                    < PredictionCountOr5(tournaments[tid])
       THEN /\ last' = Done(op, a, tid, "too_few_participants")
            /\ UNCHANGED <<tournaments, admin_fsm, setup_buttons>>
       ELSE LET ts == [tournaments EXCEPT ![tid].status = to_status] IN
            /\ tournaments' = ts
            /\ admin_fsm' = [admin_fsm EXCEPT
                    ![a] = show_tournament_menu(@, tid, ts)]
            /\ setup_buttons' = [setup_buttons EXCEPT
                    ![a] = tournament_management_menu_kb(@, tid, ts)]
            /\ last' = Done(op, a, tid, "ok")
    /\ UNCHANGED <<forecasts, nextForecastId, users>> /\ UserUnchanged

(* Publication without the participant-count validation.                  *)
cq_publish_tournament_unvalidated(a, tid) ==
    StatusHandler("cq_publish_tournament", a, tid, "DRAFT", "OPEN", FALSE)

cq_publish_tournament(a, tid) ==
    StatusHandler("cq_publish_tournament", a, tid, "DRAFT", "OPEN", TRUE)

cq_close_bets(a, tid) ==
    StatusHandler("cq_close_bets", a, tid, "OPEN", "LIVE", FALSE)

cq_open_bets(a, tid) ==
    StatusHandler("cq_open_bets", a, tid, "LIVE", "OPEN", FALSE)

(* ---------------------------- results entry --------------------------- *)
cq_set_results_start(a, tid) ==
    /\ admin_fsm[a].state = "managing_tournament"
    /\ tid \in DOMAIN tournaments
    /\ LET t == tournaments[tid]
           prediction_count == PredictionCountOr5(t)
       IN  IF t.status # "LIVE"
           THEN /\ last' = Done("cq_set_results_start", a, tid, "wrong_status")
                /\ UNCHANGED admin_fsm
           ELSE IF Cardinality(t.participants) < prediction_count
           THEN /\ last' = Done("cq_set_results_start", a, tid,
                                "too_few_participants")
                /\ UNCHANGED admin_fsm
           ELSE /\ admin_fsm' = [admin_fsm EXCEPT ![a] =
                        [@ EXCEPT !.state = "entering_results",
                                  !.managed_tournament_id = tid,
                                  !.results_list = <<>>,
                                  !.prediction_count = prediction_count,
                                  !.kb = t.participants]]
                /\ last' = Done("cq_set_results_start", a, tid, "ok")
    /\ DbUnchanged /\ UserUnchanged /\ UNCHANGED setup_buttons

cq_process_result_selection(a, player_id) ==
    /\ admin_fsm[a].state = "entering_results"
    /\ player_id \in admin_fsm[a].kb
    /\ LET fsm == admin_fsm[a]
           tid == fsm.managed_tournament_id
           results_list == Append(fsm.results_list, player_id)
       IN  /\ tid \in DOMAIN tournaments
           /\ IF player_id \in Range(fsm.results_list)
              THEN /\ last' = Done("cq_process_result_selection", a, tid,
                                   "already_selected")
                   /\ UNCHANGED admin_fsm
              ELSE /\ last' = Done("cq_process_result_selection", a, tid, "ok")
                   /\ admin_fsm' = [admin_fsm EXCEPT ![a] =
                        IF Len(results_list) + 1 <= fsm.prediction_count
                        THEN [fsm EXCEPT !.results_list = results_list,
                                         !.kb = tournaments[tid].participants]
                        ELSE [fsm EXCEPT !.results_list = results_list,
                                         !.kb = {},
                                         !.state = "confirming_results"]]
    /\ DbUnchanged /\ UserUnchanged /\ UNCHANGED setup_buttons

cq_set_results_cancel(a) ==
    /\ admin_fsm[a].state = "confirming_results"
    /\ LET tid == admin_fsm[a].managed_tournament_id IN
       /\ admin_fsm' = [admin_fsm EXCEPT
                ![a] = show_tournament_menu(@, tid, tournaments)]
       /\ setup_buttons' = [setup_buttons EXCEPT
                ![a] = tournament_management_menu_kb(@, tid, tournaments)]
       /\ last' = Done("cq_set_results_cancel", a, tid, "ok")
    /\ DbUnchanged /\ UserUnchanged

(* ------------------------------ finalize ------------------------------ *)
(* The rows of S ordered by id.                                            *)
RECURSIVE SortById(_)
SortById(S) ==
    IF S = {} THEN <<>>
    ELSE LET f == CHOOSE x \in S : \A y \in S : x.id <= y.id
         IN  <<f>> \o SortById(S \ {f})

(* The update with total_slots set to the slots of the new forecast.      *)
UpdateUserStatsSlotsSet(user, slots_count, score) ==
    LET total_slots_before == user.total_slots
        stats == calculate_new_stats(user.total_points, user.accuracy_rate,
                    user.avg_error, total_slots_before,
                    score.points, score.diffs, score.exact_hits)
    IN  [total_points |-> stats.total_points,
         accuracy_rate |-> stats.accuracy_rate,
         avg_error |-> stats.avg_error,
         total_slots |-> slots_count,
         tournaments_played |-> user.tournaments_played + 1,
         exact_guesses |-> user.exact_guesses + score.exact_hits,
         perfect_tournaments |->
            IF slots_count > 0 /\ score.exact_hits = slots_count
            THEN user.perfect_tournaments + 1
            ELSE user.perfect_tournaments,
         streak_days |-> user.streak_days,
         max_streak |-> user.max_streak]

(* The user row after a forecast of slots_count slots with the return     *)
(* value score of calculate_forecast_points was processed.                 *)
UpdateUserStats(user, slots_count, score) ==
    LET total_slots_before == user.total_slots
        stats == calculate_new_stats(user.total_points, user.accuracy_rate,
                    user.avg_error, total_slots_before,
                    score.points, score.diffs, score.exact_hits)
    IN  [total_points |-> stats.total_points,
         accuracy_rate |-> stats.accuracy_rate,
         avg_error |-> stats.avg_error,
         total_slots |-> total_slots_before + slots_count,
         tournaments_played |-> user.tournaments_played + 1,
         exact_guesses |-> user.exact_guesses + score.exact_hits,
         perfect_tournaments |->
            IF slots_count > 0 /\ score.exact_hits = slots_count
            THEN user.perfect_tournaments + 1
            ELSE user.perfect_tournaments,
         streak_days |-> user.streak_days,
         max_streak |-> user.max_streak]

(* The pass with the exact hits of the forecast left out of the counters.  *)
ProcessForecastNoHits(sess, forecast_id, results_dict) ==
    LET forecast == CHOOSE f \in sess.forecasts : f.id = forecast_id
        score == calculate_forecast_points(forecast.prediction_data,
                                           results_dict)
        new_user == UpdateUserStats(sess.users[forecast.user_id],
                                    Len(forecast.prediction_data),
                                    [score EXCEPT !.exact_hits = 0])
    IN  [sess EXCEPT
            !.forecasts = (@ \ {forecast})
                \cup {[forecast EXCEPT !.points_earned = score.points]},
            !.users = [@ EXCEPT ![forecast.user_id] = new_user]]

(* One pass of the "Process each forecast" loop on the session sess.       *)
ProcessForecast(sess, forecast_id, results_dict) ==
    LET forecast == CHOOSE f \in sess.forecasts : f.id = forecast_id
        score == calculate_forecast_points(forecast.prediction_data,
                                           results_dict)
        new_user == UpdateUserStats(sess.users[forecast.user_id],
                                    Len(forecast.prediction_data), score)
    IN  [sess EXCEPT
            !.forecasts = (@ \ {forecast})
                \cup {[forecast EXCEPT !.points_earned = score.points]},
            !.users = [@ EXCEPT ![forecast.user_id] = new_user]]

(* The first n passes of the loop over order (forecast ids).               *)
RECURSIVE ProcessForecasts(_, _, _, _)
ProcessForecasts(sess, order, n, results_dict) ==
    IF n = 0 THEN sess
    ELSE ProcessForecast(
            ProcessForecasts(sess, order, n - 1, results_dict),
            order[n].id, results_dict)

(* The session of cq_set_results_confirm, opened on the rows stored,       *)
(* after n forecasts were processed.                                       *)
FinalizeFrom(stored, tid, results_list, n) ==
    LET results_dict == ResultsDict(results_list)
        loaded == [tournaments |-> [stored.tournaments EXCEPT
                        ![tid].status = "FINISHED",
                        ![tid].results = results_dict],
                   forecasts |-> stored.forecasts,
                   users |-> stored.users]
        order == SortById({f \in stored.forecasts : f.tournament_id = tid})
    IN  ProcessForecasts(loaded, order, n, results_dict)

FinalizeSession(tid, results_list, n) ==
    FinalizeFrom([tournaments |-> tournaments, forecasts |-> forecasts,
                  users |-> users], tid, results_list, n)

(* session.commit(): the session's rows become the stored rows.            *)
Commit(stored, sess) == sess

(* A rollback that leaves the flushed rows of the session in the store.    *)
RollbackKeepsFlushed(stored, sess) == sess

(* session.rollback(): the session's pending rows are discarded.           *)
Rollback(stored, sess) == stored

(* A rollback after the commit that takes the committed rows back.         *)
RollbackAfterCommitUndoes(stored, committed) == stored

(* session.rollback() in the except branch once session.commit() has run:  *)
(* the session has nothing pending and the committed rows stay.            *)
RollbackAfterCommit(stored, committed) == committed

(* The faults of the sends that follow the commit: none, the edit of the   *)
(* progress message, or the operator summary.                              *)
AdminFaults == {"none", "progress", "summary"}

(* fault_at = NULL: no exception before the commit; fault_at = n: an       *)
(* exception is raised after n forecasts have been processed and before    *)
(* the commit.  After the commit the progress message is edited, a result  *)
(* message is sent to the owner of every forecast (a failure for a user of *)
(* failed_sends is logged and skipped) and the summary is sent to the      *)
(* operator; a failure of the edit or of the summary (admin_fault) ends in *)
(* the except branch.  last.sent and last.summary are the messages that    *)
(* went out.                                                               *)
cq_set_results_confirm_sending(a, fault_at, failed_sends, admin_fault) ==
    /\ admin_fsm[a].state = "confirming_results"
    /\ LET tid == admin_fsm[a].managed_tournament_id
           results_list == admin_fsm[a].results_list
           count == Cardinality({f \in forecasts : f.tournament_id = tid})
           stored == [tournaments |-> tournaments, forecasts |-> forecasts,
                      users |-> users]
           committed == tid \in DOMAIN tournaments /\ fault_at = NULL
           after ==
              IF tid \notin DOMAIN tournaments
              THEN Rollback(stored, stored)
              ELSE IF fault_at = NULL
              THEN IF admin_fault = "none"
                   THEN Commit(stored,
                               FinalizeSession(tid, results_list, count))
                   ELSE RollbackAfterCommit(stored,
                            Commit(stored,
                                   FinalizeSession(tid, results_list, count)))
              ELSE Rollback(stored,
                            FinalizeSession(tid, results_list, fault_at))
           owners == {f.user_id : f \in {g \in forecasts :
                                            g.tournament_id = tid}}
       IN  /\ fault_at # NULL => (tid \in DOMAIN tournaments /\ fault_at <= count)
           /\ ~committed => (failed_sends = {} /\ admin_fault = "none")
           /\ admin_fault = "progress" => failed_sends = {}
           /\ tournaments' = after.tournaments
           /\ forecasts' = after.forecasts
           /\ users' = after.users
           /\ admin_fsm' = [admin_fsm EXCEPT
                ![a] = show_tournament_menu(AdminCleared, tid,
                                            after.tournaments)]
           /\ setup_buttons' = [setup_buttons EXCEPT
                ![a] = tournament_management_menu_kb(@, tid,
                                            after.tournaments)]
           /\ last' = [DoneArg("cq_set_results_confirm", a, tid,
                               IF tid \notin DOMAIN tournaments
                               THEN "not_found"
                               ELSE IF fault_at = NULL THEN "committed"
                               ELSE "rolled_back",
                               fault_at)
                        EXCEPT !.sent = IF committed /\ admin_fault # "progress"
                                        THEN owners \ failed_sends ELSE {},
                               !.summary = committed /\ admin_fault = "none"]
    /\ UNCHANGED nextForecastId /\ UserUnchanged

(* The handler when every send succeeds.                                   *)
cq_set_results_confirm(a, fault_at) ==
    cq_set_results_confirm_sending(a, fault_at, {}, "none")

(* ------------------------ forecast submission ------------------------- *)
AdminUnchanged == UNCHANGED <<admin_fsm, setup_buttons>> /\ SeasonUnchanged

OwnForecasts(user_id, tid) ==
    {f \in forecasts : f.user_id = user_id /\ f.tournament_id = tid}

(* cmd_predict_start sets the state and keeps the data; of the kept keys   *)
(* only editing_forecast_id is read again before it is overwritten.        *)
cmd_predict_start(u) ==
    /\ deliveries[u] = <<>>
    /\ IF \E tid \in DOMAIN tournaments : tournaments[tid].status = "OPEN"
       THEN /\ user_fsm' = [user_fsm EXCEPT ![u] =
                    [UserCleared EXCEPT
                        !.state = "choosing_tournament",
                        !.editing_forecast_id =
                            user_fsm[u].editing_forecast_id]]
            /\ last' = Done("cmd_predict_start", u, NULL, "ok")
       ELSE /\ UNCHANGED user_fsm
            /\ last' = Done("cmd_predict_start", u, NULL,
                            "no_open_tournaments")
    /\ DbUnchanged /\ AdminUnchanged /\ UNCHANGED deliveries

(* The predict_start button of tid is offered by the tournament card,      *)
(* which is reached from the list of open tournaments and from the         *)
(* broadcast sent at publication.                                          *)
cq_predict_start(u, tid) ==
    /\ deliveries[u] = <<>>
    /\ tid \in DOMAIN tournaments
    /\ tournaments[tid].status # "DRAFT"
    /\ IF OwnForecasts(u, tid) # {}
       THEN /\ last' = Done("cq_predict_start", u, tid, "has_forecast")
            /\ UNCHANGED user_fsm
       ELSE IF tournaments[tid].participants = {}
       THEN /\ last' = Done("cq_predict_start", u, tid, "no_participants")
            /\ UNCHANGED user_fsm
       ELSE /\ user_fsm' = [user_fsm EXCEPT ![u] =
                    [@ EXCEPT !.state = "making_prediction",
                              !.tournament_id = tid,
                              !.forecast_list = <<>>,
                              !.prediction_count =
                                    PredictionCountOr5(tournaments[tid]),
                              !.kb = tournaments[tid].participants]]
            /\ last' = Done("cq_predict_start", u, tid, "ok")
    /\ DbUnchanged /\ AdminUnchanged /\ UNCHANGED deliveries

cq_edit_forecast_confirm_yes_logic(u, forecast_id) ==
    /\ deliveries[u] = <<>>
    /\ \E f \in forecasts : f.id = forecast_id /\ f.user_id = u
    /\ LET forecast == CHOOSE f \in forecasts : f.id = forecast_id
           tid == forecast.tournament_id
       IN  IF tid \notin DOMAIN tournaments
           THEN /\ last' = Done("cq_edit_forecast_confirm_yes_logic", u, tid,
                                "tournament_not_found")
                /\ UNCHANGED user_fsm
           ELSE IF tournaments[tid].status # "OPEN"
           THEN /\ last' = Done("cq_edit_forecast_confirm_yes_logic", u, tid,
                                "edit_forbidden")
                /\ UNCHANGED user_fsm
           ELSE IF tournaments[tid].participants = {}
           THEN /\ last' = Done("cq_edit_forecast_confirm_yes_logic", u, tid,
                                "no_participants")
                /\ user_fsm' = [user_fsm EXCEPT ![u] = UserCleared]
           ELSE /\ user_fsm' = [user_fsm EXCEPT ![u] =
                        [@ EXCEPT !.state = "making_prediction",
                                  !.tournament_id = tid,
                                  !.forecast_list = <<>>,
                                  !.editing_forecast_id = forecast_id,
                                  !.prediction_count =
                                        PredictionCountOr5(tournaments[tid]),
                                  !.kb = tournaments[tid].participants]]
                /\ last' = Done("cq_edit_forecast_confirm_yes_logic", u, tid,
                                "ok")
    /\ DbUnchanged /\ AdminUnchanged /\ UNCHANGED deliveries

cq_process_prediction_selection(u, player_id) ==
    /\ deliveries[u] = <<>>
    /\ user_fsm[u].state = "making_prediction"
    /\ player_id \in user_fsm[u].kb
    /\ LET fsm == user_fsm[u]
           tid == fsm.tournament_id
           forecast_list == Append(fsm.forecast_list, player_id)
       IN  /\ tid \in DOMAIN tournaments
           /\ IF player_id \in Range(fsm.forecast_list)
              THEN /\ last' = Done("cq_process_prediction_selection", u, tid,
                                   "already_selected")
                   /\ UNCHANGED user_fsm
              ELSE /\ last' = Done("cq_process_prediction_selection", u, tid,
                                   "ok")
                   /\ user_fsm' = [user_fsm EXCEPT ![u] =
                        IF Len(forecast_list) + 1 <= fsm.prediction_count
                        THEN [fsm EXCEPT !.forecast_list = forecast_list,
                                         !.kb = tournaments[tid].participants]
                        ELSE [fsm EXCEPT !.forecast_list = forecast_list,
                                         !.kb = {},
                                         !.state = "confirming_forecast"]]
    /\ DbUnchanged /\ AdminUnchanged /\ UNCHANGED deliveries

(* The dispatcher accepts a confirm_forecast:yes callback: the state       *)
(* filter passes and the handler reads the FSM data.  The handler clears   *)
(* the state only at its end, so a second callback of the same keyboard    *)
(* is accepted meanwhile.  While a callback is in flight the participant   *)
(* presses no other button (the other handlers of u wait for               *)
(* deliveries[u] = <<>>); operators and other participants interleave.     *)
cq_predict_confirm_accept(u) ==
    /\ user_fsm[u].state = "confirming_forecast"
    /\ Len(deliveries[u]) < MaxDeliveries
    /\ deliveries' = [deliveries EXCEPT ![u] = Append(@,
            [tournament_id |-> user_fsm[u].tournament_id,
             forecast_list |-> user_fsm[u].forecast_list,
             editing_forecast_id |-> user_fsm[u].editing_forecast_id])]
    /\ last' = Done("cq_predict_confirm_accept", u,
                    user_fsm[u].tournament_id, "ok")
    /\ DbUnchanged /\ AdminUnchanged /\ UNCHANGED user_fsm

(* crud.delete_forecast                                                    *)
delete_forecast(rows, forecast_id) == {f \in rows : f.id # forecast_id}

(* crud.create_forecast followed by the flush that assigns the id.         *)
create_forecast(rows, new_forecast) == rows \cup {new_forecast}

(* The transaction with the DELETE committed before the INSERT is tried.   *)
ReplaceForecastDeleteFirst(rows, editing_forecast_id, new_forecast, insert_fault) ==
    LET kept == IF editing_forecast_id # NULL
                THEN delete_forecast(rows, editing_forecast_id)
                ELSE rows
    IN  IF insert_fault THEN kept ELSE create_forecast(kept, new_forecast)

(* The transaction of cq_predict_confirm: the DELETE of the edited         *)
(* forecast, the INSERT of the new one, then the one commit.  When the     *)
(* INSERT fails the session is left by the exception and rolled back.      *)
ReplaceForecast(rows, editing_forecast_id, new_forecast, insert_fault) ==
    LET kept == IF editing_forecast_id # NULL
                THEN delete_forecast(rows, editing_forecast_id)
                ELSE rows
    IN  IF insert_fault THEN rows ELSE create_forecast(kept, new_forecast)

(* The body of cq_predict_confirm for the oldest accepted callback.  With  *)
(* insert_fault the flush of the new row raises: the exception leaves the  *)
(* handler before the answer and before state.clear().                     *)
cq_predict_confirm_failing(u, insert_fault) ==
    /\ deliveries[u] # <<>>
    /\ nextForecastId <= MaxForecasts
    /\ LET data == Head(deliveries[u])
           new_forecast == [id |-> nextForecastId,
                            user_id |-> u,
                            tournament_id |-> data.tournament_id,
                            prediction_data |-> data.forecast_list,
                            points_earned |-> NULL]
       IN  /\ forecasts' = ReplaceForecast(forecasts,
                                data.editing_forecast_id, new_forecast,
                                insert_fault)
           /\ nextForecastId' = IF insert_fault THEN nextForecastId
                                ELSE nextForecastId + 1
           /\ last' = IF insert_fault
                      THEN [op |-> "cq_predict_confirm",
                            tid |-> data.tournament_id,
                            outcome |-> "insert_failed",
                            arg |-> data.editing_forecast_id,
                            sent |-> {}, summary |-> FALSE]
                      ELSE DoneArg("cq_predict_confirm", u,
                                   data.tournament_id,
                                   IF data.editing_forecast_id # NULL
                                   THEN "forecast_updated"
                                   ELSE "forecast_accepted",
                                   nextForecastId)
    /\ deliveries' = [deliveries EXCEPT ![u] = Tail(@)]
    /\ user_fsm' = IF insert_fault THEN user_fsm
                   ELSE [user_fsm EXCEPT ![u] = UserCleared]
    /\ UNCHANGED <<tournaments, users>> /\ AdminUnchanged

(* The handler when the store accepts the new row.                         *)
cq_predict_confirm(u) == cq_predict_confirm_failing(u, FALSE)

cq_predict_cancel(u) ==
    /\ deliveries[u] = <<>>
    /\ user_fsm[u].state = "confirming_forecast"
    /\ user_fsm' = [user_fsm EXCEPT ![u] = UserCleared]
    /\ last' = Done("cq_predict_cancel", u, user_fsm[u].tournament_id, "ok")
    /\ DbUnchanged /\ AdminUnchanged /\ UNCHANGED deliveries

(* -------------------------- season rotation -------------------------- *)
(* func.sum(Forecast.points_earned): NULL rows are skipped, and the sum    *)
(* of no value is NULL.                                                    *)
RECURSIVE SqlSum(_)
SqlSum(rows) ==
    IF rows = {} THEN NULL
    ELSE LET f == CHOOSE x \in rows : TRUE
             rest == SqlSum(rows \ {f})
         IN  IF f.points_earned = NULL THEN rest
             ELSE IF rest = NULL THEN f.points_earned
             ELSE f.points_earned + rest

(* season_map[s_num]["t_ids"]: the tournaments dated inside season s_num,  *)
(* whatever their status.                                                  *)
SeasonTournamentIds(ts, s_num) ==
    {t \in DOMAIN ts : get_season_number(ts[t].date) = s_num}

(* stats_stmt: one row per user with a forecast on a tournament of t_ids.  *)
SeasonStats(fs, t_ids) ==
    {[user_id |-> u,
      total_points |-> SqlSum({f \in fs : f.user_id = u
                                        /\ f.tournament_id \in t_ids}),
      played_count |-> Cardinality({f \in fs : f.user_id = u
                                        /\ f.tournament_id \in t_ids})]
        : u \in {f.user_id : f \in {g \in fs : g.tournament_id \in t_ids}}}

(* ORDER BY sum(points_earned) DESC.  The place of a NULL sum and the      *)
(* order of equal sums are the store's choice: nulls_first and the         *)
(* positions tie_break of the users.                                       *)
StatsPrecedes(x, y, tie_break, nulls_first) ==
    IF x.total_points = NULL /\ y.total_points = NULL
    THEN tie_break[x.user_id] < tie_break[y.user_id]
    ELSE IF x.total_points = NULL THEN nulls_first
    ELSE IF y.total_points = NULL THEN ~nulls_first
    ELSE \/ x.total_points > y.total_points
         \/ /\ x.total_points = y.total_points
            /\ tie_break[x.user_id] < tie_break[y.user_id]

RECURSIVE OrderStats(_, _, _)
OrderStats(stats, tie_break, nulls_first) ==
    IF stats = {} THEN <<>>
    ELSE LET x == CHOOSE r \in stats : \A y \in stats \ {r} :
                        StatsPrecedes(r, y, tie_break, nulls_first)
         IN  <<x>> \o OrderStats(stats \ {x}, tie_break, nulls_first)

(* The loop pass without the check for results that already exist.        *)
ProcessSeasonUnguarded(acc, s_num, ts, fs, tie_break, nulls_first) ==
    LET existing == {x \in acc.seasons : x.number = s_num}
        season == IF existing # {}
                  THEN CHOOSE x \in existing : TRUE
                  ELSE [id |-> Cardinality(acc.seasons) + 1,
                        number |-> s_num,
                        start_date |-> get_season_dates(s_num)[1],
                        end_date |-> get_season_dates(s_num)[2],
                        status |-> "closed"]
        stats == OrderStats(SeasonStats(fs, SeasonTournamentIds(ts, s_num)),
                            tie_break, nulls_first)
        base == Cardinality(acc.season_results)
        rows == {[id |-> base + rank,
                  season_id |-> season.id,
                  user_id |-> stats[rank].user_id,
                  rank |-> rank,
                  points |-> IF stats[rank].total_points = NULL THEN 0
                             ELSE stats[rank].total_points,
                  tournaments_played |-> stats[rank].played_count]
                    : rank \in 1..Len(stats)}
    IN  [seasons |-> acc.seasons \cup {season},
         season_results |-> acc.season_results \cup rows]

(* One pass of the "Create Seasons and Results" loop on the session acc.   *)
ProcessSeason(acc, s_num, ts, fs, tie_break, nulls_first) ==
    LET existing == {x \in acc.seasons : x.number = s_num}
        season == IF existing # {}
                  THEN CHOOSE x \in existing : TRUE
                  ELSE [id |-> Cardinality(acc.seasons) + 1,
                        number |-> s_num,
                        start_date |-> get_season_dates(s_num)[1],
                        end_date |-> get_season_dates(s_num)[2],
                        status |-> "closed"]
        stats == OrderStats(SeasonStats(fs, SeasonTournamentIds(ts, s_num)),
                            tie_break, nulls_first)
        base == Cardinality(acc.season_results)
        rows == {[id |-> base + rank,
                  season_id |-> season.id,
                  user_id |-> stats[rank].user_id,
                  rank |-> rank,
                  points |-> IF stats[rank].total_points = NULL THEN 0
                             ELSE stats[rank].total_points,
                  tournaments_played |-> stats[rank].played_count]
                    : rank \in 1..Len(stats)}
    IN  IF \E r \in acc.season_results : r.season_id = season.id
        THEN [acc EXCEPT !.seasons = @ \cup {season}]
        ELSE [seasons |-> acc.seasons \cup {season},
              season_results |-> acc.season_results \cup rows]

(* The loop over season_map, whose keys are in ascending order because the *)
(* tournaments are read ordered by date; season 0 is not a key.            *)
RECURSIVE ProcessSeasons(_, _, _, _, _, _)
ProcessSeasons(acc, s_nums, ts, fs, tie_break, nulls_first) ==
    IF s_nums = {} THEN acc
    ELSE LET s_num == CHOOSE n \in s_nums : \A m \in s_nums : n <= m
         IN  ProcessSeasons(
                ProcessSeason(acc, s_num, ts, fs, tie_break, nulls_first),
                s_nums \ {s_num}, ts, fs, tie_break, nulls_first)

(* The rotation with the tournaments dated before FIRST_SEASON_START kept  *)
(* in season_map.                                                          *)
RotationResultWithPrehistory(ts, fs, stored, tie_break, nulls_first) ==
    ProcessSeasons(stored,
        {get_season_number(ts[t].date) : t \in DOMAIN ts},
        ts, fs, tie_break, nulls_first)

(* The season tables after migrate_seasons has run on the stored rows.     *)
RotationResult(ts, fs, stored, tie_break, nulls_first) ==
    ProcessSeasons(stored,
        {get_season_number(ts[t].date) : t \in DOMAIN ts} \ {0},
        ts, fs, tie_break, nulls_first)

TieBreaks == {f \in [Users -> 1..NumUsers] :
                \A u \in Users, v \in Users : f[u] = f[v] => u = v}

(* A rotation that stores 0 as points_earned of the forecasts it read      *)
(* without points.                                                         *)
migrate_seasons_scoring(tie_break, nulls_first) ==
    /\ LET after == RotationResult(tournaments, forecasts,
                        [seasons |-> seasons,
                         season_results |-> season_results],
                        tie_break, nulls_first)
       IN  /\ seasons' = after.seasons
           /\ season_results' = after.season_results
    /\ forecasts' = {IF f.points_earned = NULL
                     THEN [f EXCEPT !.points_earned = 0] ELSE f
                        : f \in forecasts}
    /\ last' = Done("migrate_seasons", 0, NULL, "ok")
    /\ UNCHANGED <<tournaments, nextForecastId, users>>
    /\ UNCHANGED <<admin_fsm, setup_buttons, user_fsm, deliveries, today,
                   calc>>

(* migrate_seasons: run at start-up, by the weekly scheduler job, or by    *)
(* hand; one transaction, committed at its end.                            *)
migrate_seasons(tie_break, nulls_first) ==
    /\ LET after == RotationResult(tournaments, forecasts,
                        [seasons |-> seasons,
                         season_results |-> season_results],
                        tie_break, nulls_first)
       IN  /\ seasons' = after.seasons
           /\ season_results' = after.season_results
    /\ last' = Done("migrate_seasons", 0, NULL, "ok")
    /\ DbUnchanged
    /\ UNCHANGED <<admin_fsm, setup_buttons, user_fsm, deliveries, today,
                   calc>>

(* The day after the last season window.                                   *)
LastDay == get_season_dates(MaxSeasons)[2] + 1

(* A day passes.                                                           *)
Tick ==
    /\ today < LastDay
    /\ today' = today + 1
    /\ DbUnchanged
    /\ UNCHANGED <<admin_fsm, setup_buttons, user_fsm, deliveries,
                   seasons, season_results, calc, last>>

(* --------------------------- specification ---------------------------- *)
TournamentIds == 1..MaxTournaments

(* Every handler, run by the operators of Admins and the participants.     *)
Next ==
    \/ \E a \in Admins : cmd_manage_tournaments(a)
    \/ \E a \in Admins, count \in 1..MaxSlots, date \in EventDates :
            cq_create_tournament_finish(a, count, date)
    \/ \E a \in Admins, tid \in TournamentIds :
            cq_select_tournament_to_manage(a, tid)
    \/ \E a \in Admins, tid \in TournamentIds :
            cq_add_participant_start(a, tid)
    \/ \E a \in Admins, p \in Players : cq_add_participant_select(a, p)
    \/ \E a \in Admins : cq_rating_keep(a)
    \/ \E a \in Admins, tid \in TournamentIds :
            cq_remove_participant_start(a, tid)
    \/ \E a \in Admins, p \in Players : cq_remove_participant_select(a, p)
    \/ \E a \in Admins, tid \in TournamentIds : cq_publish_tournament(a, tid)
    \/ \E a \in Admins, tid \in TournamentIds : cq_close_bets(a, tid)
    \/ \E a \in Admins, tid \in TournamentIds : cq_open_bets(a, tid)
    \/ \E a \in Admins, tid \in TournamentIds : cq_set_results_start(a, tid)
    \/ \E a \in Admins, p \in Players : cq_process_result_selection(a, p)
    \/ \E a \in Admins : cq_set_results_cancel(a)
    \/ \E a \in Admins, fault_at \in {NULL} \cup (0..MaxForecasts) :
            cq_set_results_confirm(a, fault_at)
    \/ \E u \in Users : cmd_predict_start(u)
    \/ \E u \in Users, tid \in TournamentIds : cq_predict_start(u, tid)
    \/ \E u \in Users, fid \in 1..MaxForecasts :
            cq_edit_forecast_confirm_yes_logic(u, fid)
    \/ \E u \in Users, p \in Players : cq_process_prediction_selection(u, p)
    \/ \E u \in Users : cq_predict_confirm_accept(u)
    \/ \E u \in Users : cq_predict_confirm(u)
    \/ \E u \in Users : cq_predict_cancel(u)

Spec == Init /\ [][Next]_vars

(* Several operators at once.  The start is a state of Spec: operator 1    *)
(* has created tournament 1, filled its roster and returned to             *)
(* /manage_tournaments; the other operators have not acted yet.  The       *)
(* steps are the status handlers, the results flow and new forecasts.      *)
InitRace ==
    /\ \E count \in 1..MaxSlots, roster \in SUBSET Players :
            tournaments = [t \in {1} |->
                [NewTournament(count, 0) EXCEPT !.participants = roster]]
    /\ forecasts = {}
    /\ nextForecastId = 1
    /\ users = [u \in Users |-> NewUser]
    /\ admin_fsm = [a \in Operators |->
            IF a = 1 THEN ManageTournamentsFsm ELSE AdminCleared]
    /\ setup_buttons = [a \in Operators |-> IF a = 1 THEN {1} ELSE {}]
    /\ user_fsm = [u \in Users |-> UserCleared]
    /\ deliveries = [u \in Users |-> <<>>]
    /\ seasons = {}
    /\ season_results = {}
    /\ today = 0
    /\ calc = NoCalc
    /\ last = Done("init", 0, NULL, "ok")

NextRace ==
    \/ \E a \in Operators, tid \in TournamentIds :
            cq_select_tournament_to_manage(a, tid)
    \/ \E a \in Operators, tid \in TournamentIds :
            cq_publish_tournament(a, tid)
    \/ \E a \in Operators, tid \in TournamentIds : cq_close_bets(a, tid)
    \/ \E a \in Operators, tid \in TournamentIds : cq_open_bets(a, tid)
    \/ \E a \in Operators, tid \in TournamentIds :
            cq_set_results_start(a, tid)
    \/ \E a \in Operators, p \in Players : cq_process_result_selection(a, p)
    \/ \E a \in Operators : cq_set_results_cancel(a)
    \/ \E a \in Operators, fault_at \in {NULL} \cup (0..MaxForecasts) :
            cq_set_results_confirm(a, fault_at)
    \/ \E u \in Users, tid \in TournamentIds : cq_predict_start(u, tid)
    \/ \E u \in Users, p \in Players : cq_process_prediction_selection(u, p)
    \/ \E u \in Users : cq_predict_confirm_accept(u)
    \/ \E u \in Users : cq_predict_confirm(u)

SpecRace == InitRace /\ [][NextRace]_vars

(* Roster and status changes by several operators, no participant acting. *)
(* The start is that of SpecRace.                                          *)
NextRoster ==
    \/ \E a \in Operators, tid \in TournamentIds :
            cq_select_tournament_to_manage(a, tid)
    \/ \E a \in Operators, tid \in TournamentIds :
            cq_add_participant_start(a, tid)
    \/ \E a \in Operators, p \in Players : cq_add_participant_select(a, p)
    \/ \E a \in Operators : cq_rating_keep(a)
    \/ \E a \in Operators, tid \in TournamentIds :
            cq_remove_participant_start(a, tid)
    \/ \E a \in Operators, p \in Players : cq_remove_participant_select(a, p)
    \/ \E a \in Operators, tid \in TournamentIds :
            cq_publish_tournament(a, tid)
    \/ \E a \in Operators, tid \in TournamentIds : cq_close_bets(a, tid)
    \/ \E a \in Operators, tid \in TournamentIds : cq_open_bets(a, tid)

SpecRoster == InitRace /\ [][NextRoster]_vars

(* One tournament from publication to its results: operator 1 publishes,   *)
(* locks and finalizes while the participants submit forecasts.            *)
NextFinalize ==
    \/ \E tid \in TournamentIds : cq_select_tournament_to_manage(1, tid)
    \/ \E tid \in TournamentIds : cq_publish_tournament(1, tid)
    \/ \E tid \in TournamentIds : cq_close_bets(1, tid)
    \/ \E tid \in TournamentIds : cq_set_results_start(1, tid)
    \/ \E p \in Players : cq_process_result_selection(1, p)
    \/ \E fault_at \in {NULL} \cup (0..MaxForecasts) :
            cq_set_results_confirm(1, fault_at)
    \/ \E u \in Users, tid \in TournamentIds : cq_predict_start(u, tid)
    \/ \E u \in Users, p \in Players : cq_process_prediction_selection(u, p)
    \/ \E u \in Users : cq_predict_confirm_accept(u)
    \/ \E u \in Users : cq_predict_confirm(u)

SpecFinalize == InitRace /\ [][NextFinalize]_vars

(* The tournaments of a season and the rotation.  The start is a state of *)
(* Spec: tournaments with one slot and the full roster, on any of the      *)
(* dates, each OPEN, LIVE or finalized with some winner, and at most one   *)
(* forecast per participant and tournament, scored if the tournament was   *)
(* finalized.  The tournaments were created in the order of their dates.   *)
RECURSIVE FinalizeAll(_, _, _)
FinalizeAll(stored, tids, outcome) ==
    IF tids = {} THEN stored
    ELSE LET tid == CHOOSE t \in tids : \A o \in tids : t <= o
             n == Cardinality({f \in stored.forecasts :
                                    f.tournament_id = tid})
         IN  FinalizeAll(FinalizeFrom(stored, tid, <<outcome[tid]>>, n),
                         tids \ {tid}, outcome)

InitRotation ==
    /\ \E k \in 1..MaxTournaments :
       \E dates \in [1..k -> EventDates],
          status \in [1..k -> {"OPEN", "LIVE", "FINISHED"}],
          outcome \in [1..k -> Players],
          picks \in [Users \X (1..k) -> Players \cup {NULL}] :
            LET opened == [t \in 1..k |->
                    [NewTournament(1, dates[t]) EXCEPT
                        !.status = IF status[t] = "OPEN"
                                   THEN "OPEN" ELSE "LIVE",
                        !.participants = Players]]
                rows == {[id |-> (t - 1) * NumUsers + u,
                          user_id |-> u,
                          tournament_id |-> t,
                          prediction_data |-> <<picks[u, t]>>,
                          points_earned |-> NULL]
                            : <<u, t>> \in {x \in Users \X (1..k) :
                                                picks[x] # NULL}}
                final == FinalizeAll(
                            [tournaments |-> opened, forecasts |-> rows,
                             users |-> [u \in Users |-> NewUser]],
                            {t \in 1..k : status[t] = "FINISHED"}, outcome)
            IN  /\ \A t \in 1..k : status[t] # "FINISHED" => outcome[t] = 1
                /\ \A t \in 1..k, o \in 1..k : t <= o => dates[t] <= dates[o]
                /\ Cardinality(rows) <= MaxForecasts
                /\ tournaments = final.tournaments
                /\ forecasts = final.forecasts
                /\ users = final.users
    /\ nextForecastId = NumUsers * MaxTournaments + 1
    /\ admin_fsm = [a \in Operators |-> AdminCleared]
    /\ setup_buttons = [a \in Operators |-> {}]
    /\ user_fsm = [u \in Users |-> UserCleared]
    /\ deliveries = [u \in Users |-> <<>>]
    /\ seasons = {}
    /\ season_results = {}
    /\ today = 0
    /\ calc = NoCalc
    /\ last = Done("init", 0, NULL, "ok")

NextRotation ==
    \E tie_break \in TieBreaks, nulls_first \in BOOLEAN :
        migrate_seasons(tie_break, nulls_first)

SpecRotation == InitRotation /\ [][NextRotation]_vars

(* One tournament on any of the dates, from publication to its results,    *)
(* while days pass and the rotation runs.                                  *)
InitSeason ==
    /\ \E date \in EventDates, roster \in SUBSET Players :
            tournaments = [t \in {1} |->
                [NewTournament(1, date) EXCEPT !.participants = roster]]
    /\ forecasts = {}
    /\ nextForecastId = 1
    /\ users = [u \in Users |-> NewUser]
    /\ admin_fsm = [a \in Operators |->
            IF a = 1 THEN ManageTournamentsFsm ELSE AdminCleared]
    /\ setup_buttons = [a \in Operators |-> IF a = 1 THEN {1} ELSE {}]
    /\ user_fsm = [u \in Users |-> UserCleared]
    /\ deliveries = [u \in Users |-> <<>>]
    /\ seasons = {}
    /\ season_results = {}
    /\ today = 0
    /\ calc = NoCalc
    /\ last = Done("init", 0, NULL, "ok")

NextSeason ==
    \/ NextFinalize
    \/ \E tie_break \in TieBreaks, nulls_first \in BOOLEAN :
            migrate_seasons(tie_break, nulls_first)
    \/ Tick

SpecSeason == InitSeason /\ [][NextSeason]_vars

(* A call of calculate_forecast_points on its own.  The start is any       *)
(* forecast list a participant can store (distinct players, the selection  *)
(* handler rejects a player already chosen) and any results dictionary     *)
(* over the same players; the call is made, and made again on a            *)
(* dictionary that differs in one entry.                                   *)
Competitors == 1..MaxScoreLen

RECURSIVE SeqsOfLen(_)
SeqsOfLen(n) ==
    IF n = 0 THEN {<<>>}
    ELSE {Append(q, c) : q \in SeqsOfLen(n - 1), c \in Competitors}

Predictions ==
    {q \in UNION {SeqsOfLen(n) : n \in 0..MaxScoreLen} :
        \A i \in 1..Len(q), j \in 1..Len(q) : q[i] = q[j] => i = j}

(* Dictionaries player_id -> rank over any part of the players.            *)
OutcomeMaps ==
    UNION {[D -> 1..MaxScoreLen] : D \in SUBSET Competitors}

(* results_data with the entry of player c set to rank, or dropped when    *)
(* rank is NULL.                                                           *)
WithEntry(results_data, c, rank) ==
    LET D == IF rank = NULL THEN DOMAIN results_data \ {c}
             ELSE DOMAIN results_data \cup {c}
    IN  [x \in D |-> IF x = c THEN rank ELSE results_data[x]]

ScoringCall(prediction_data, results_data, again) ==
    LET score == calculate_forecast_points(prediction_data, results_data)
    IN  [kind |-> "score", returned |-> TRUE, again |-> again,
         prediction_data |-> prediction_data,
         results_data |-> results_data,
         points |-> score.points, diffs |-> score.diffs,
         exact_hits |-> score.exact_hits]

InitScoring ==
    /\ \E prediction_data \in Predictions, results_data \in OutcomeMaps :
            calc = [kind |-> "score", returned |-> FALSE, again |-> FALSE,
                    prediction_data |-> prediction_data,
                    results_data |-> results_data,
                    points |-> 0, diffs |-> <<>>, exact_hits |-> 0]
    /\ tournaments = [t \in {} |-> NewTournament(1, 0)]
    /\ forecasts = {}
    /\ nextForecastId = 1
    /\ users = [u \in Users |-> NewUser]
    /\ admin_fsm = [a \in Operators |-> AdminCleared]
    /\ setup_buttons = [a \in Operators |-> {}]
    /\ user_fsm = [u \in Users |-> UserCleared]
    /\ deliveries = [u \in Users |-> <<>>]
    /\ seasons = {}
    /\ season_results = {}
    /\ today = 0
    /\ last = Done("init", 0, NULL, "ok")

CalcOnly ==
    /\ DbUnchanged
    /\ UNCHANGED <<admin_fsm, setup_buttons, user_fsm, deliveries, seasons,
                   season_results, today, last>>

(* points, diffs, exact_hits = calculate_forecast_points(...)              *)
ScoreForecast ==
    /\ calc.kind = "score"
    /\ ~calc.returned
    /\ calc' = ScoringCall(calc.prediction_data, calc.results_data, FALSE)
    /\ CalcOnly

(* The same forecast scored against the dictionary changed at player c.    *)
ScoreAgain(c, rank) ==
    /\ calc.kind = "score"
    /\ calc.returned
    /\ calc' = ScoringCall(calc.prediction_data,
                           WithEntry(calc.results_data, c, rank), TRUE)
    /\ CalcOnly

NextScoring ==
    \/ ScoreForecast
    \/ \E c \in Competitors, rank \in (1..MaxScoreLen) \cup {NULL} :
            ScoreAgain(c, rank)

SpecScoring == InitScoring /\ [][NextScoring]_vars

(* The statistics update on its own.  The start is a new user and the      *)
(* return value of a scoring call; the update is applied for it, then for  *)
(* a second return value, and once for the two taken together.             *)
ScoreValues ==
    {calculate_forecast_points(prediction_data, results_data) :
        prediction_data \in Predictions, results_data \in OutcomeMaps}

(* The summed points, concatenated diffs and summed hits of a and b.       *)
Together(a, b) ==
    [points |-> a.points + b.points, diffs |-> a.diffs \o b.diffs,
     exact_hits |-> a.exact_hits + b.exact_hits]

InitStats ==
    /\ \E first \in ScoreValues :
            calc = [kind |-> "stats", first |-> first, applied |-> <<>>,
                    user |-> NewUser, once |-> NewUser, merged |-> FALSE]
    /\ tournaments = [t \in {} |-> NewTournament(1, 0)]
    /\ forecasts = {}
    /\ nextForecastId = 1
    /\ users = [u \in Users |-> NewUser]
    /\ admin_fsm = [a \in Operators |-> AdminCleared]
    /\ setup_buttons = [a \in Operators |-> {}]
    /\ user_fsm = [u \in Users |-> UserCleared]
    /\ deliveries = [u \in Users |-> <<>>]
    /\ seasons = {}
    /\ season_results = {}
    /\ today = 0
    /\ last = Done("init", 0, NULL, "ok")

(* The update of the user row for the forecast scored as score: the first *)
(* forecast of the user, then a second one.                                *)
ApplyStats(score) ==
    /\ calc.kind = "stats"
    /\ Len(calc.applied) < 2
    /\ calc.applied = <<>> => score = calc.first
    /\ calc' = [calc EXCEPT
            !.user = UpdateUserStats(@, Len(score.diffs), score),
            !.applied = Append(@, score)]
    /\ CalcOnly

(* The update of a new user row for the two forecasts taken together.      *)
ApplyStatsOnce ==
    /\ calc.kind = "stats"
    /\ Len(calc.applied) = 2
    /\ ~calc.merged
    /\ LET both == Together(calc.applied[1], calc.applied[2])
       IN  calc' = [calc EXCEPT
                !.once = UpdateUserStats(NewUser, Len(both.diffs), both),
                !.merged = TRUE]
    /\ CalcOnly

NextStats ==
    \/ \E score \in ScoreValues : ApplyStats(score)
    \/ ApplyStatsOnce

SpecStats == InitStats /\ [][NextStats]_vars

(* One tournament that is published, receives forecasts and is deleted by  *)
(* operator 1.  The start is that of SpecRace.                             *)
NextDelete ==
    \/ \E tid \in TournamentIds : cq_select_tournament_to_manage(1, tid)
    \/ \E tid \in TournamentIds : cq_publish_tournament(1, tid)
    \/ \E tid \in TournamentIds, fk_enforced \in BOOLEAN :
            cq_delete_tournament_execute(1, tid, fk_enforced)
    \/ \E u \in Users, tid \in TournamentIds : cq_predict_start(u, tid)
    \/ \E u \in Users, p \in Players : cq_process_prediction_selection(u, p)
    \/ \E u \in Users : cq_predict_confirm_accept(u)
    \/ \E u \in Users : cq_predict_confirm(u)

SpecDelete == InitRace /\ [][NextDelete]_vars

(* ------------------------- ranking of a season ------------------------ *)
(* The participants of a finalized tournament of the first season.  Each   *)
(* has no forecast, a forecast that the finalize scored, or a forecast     *)
(* stored after the finalize (the confirm of a dialogue begun before it),  *)
(* which has no points.  Then the rotation runs.                           *)
NumRanked == 2

Ranked == 1..NumRanked

RankedTieBreaks == {f \in [Ranked -> 1..NumRanked] :
                      \A u \in Ranked, v \in Ranked : f[u] = f[v] => u = v}

InitRanking ==
    /\ \E outcome \in Players, picks \in [Ranked -> Players \cup {NULL}],
          late \in SUBSET Ranked :
            LET live == [t \in {1} |->
                    [NewTournament(1, 0) EXCEPT !.status = "LIVE",
                                                !.participants = Players]]
                on_time == {[id |-> u, user_id |-> u, tournament_id |-> 1,
                             prediction_data |-> <<picks[u]>>,
                             points_earned |-> NULL]
                                : u \in {x \in Ranked \ late :
                                            picks[x] # NULL}}
                after == {[id |-> NumRanked + u, user_id |-> u,
                           tournament_id |-> 1,
                           prediction_data |-> <<picks[u]>>,
                           points_earned |-> NULL] : u \in late}
                final == FinalizeAll(
                            [tournaments |-> live, forecasts |-> on_time,
                             users |-> [u \in Ranked |-> NewUser]],
                            {1}, [t \in {1} |-> outcome])
            IN  /\ \A u \in late : picks[u] # NULL
                /\ tournaments = final.tournaments
                /\ forecasts = final.forecasts \cup after
                /\ users = final.users
    /\ nextForecastId = 2 * NumRanked + 1
    /\ admin_fsm = [a \in Operators |-> AdminCleared]
    /\ setup_buttons = [a \in Operators |-> {}]
    /\ user_fsm = [u \in Ranked |-> UserCleared]
    /\ deliveries = [u \in Ranked |-> <<>>]
    /\ seasons = {}
    /\ season_results = {}
    /\ today = 0
    /\ calc = NoCalc
    /\ last = Done("init", 0, NULL, "ok")

NextRanking ==
    \E tie_break \in RankedTieBreaks, nulls_first \in BOOLEAN :
        migrate_seasons(tie_break, nulls_first)

SpecRanking == InitRanking /\ [][NextRanking]_vars

(* ----------------------- rotation runs in flight ----------------------- *)
(* migrate_seasons can be running more than once at a time: the scheduler  *)
(* job of the bot, the script started by hand (its __main__), a second     *)
(* process of the bot.  Each run has its own session.                      *)
NumRuns == 2

Runs == 1..NumRuns

IdleRun == [pc |-> "idle", seasons |-> {}, season_results |-> {}]

(* The rows of pending renumbered as the store numbers them on insert      *)
(* after the count rows it holds.                                          *)
Renumbered(pending, count) ==
    {[x EXCEPT !.id = count + Cardinality({y \in pending : y.id <= x.id})]
        : x \in pending}

(* The id a Season row added by the run gets on insert.                    *)
InsertedSeasonId(pending_seasons, id, count) ==
    IF \E x \in pending_seasons : x.id = id
    THEN count + Cardinality({y \in pending_seasons : y.id <= id})
    ELSE id

(* The reads of a run: the tournaments, and for every season of the map    *)
(* the Season row, the sums and the check for rows of the season.  The     *)
(* Season and SeasonResult objects the run adds wait in its session.       *)
migrate_seasons_read(r, tie_break, nulls_first) ==
    /\ calc.kind = "rotation"
    /\ calc.runs[r].pc = "idle"
    /\ LET after == RotationResult(tournaments, forecasts,
                        [seasons |-> seasons,
                         season_results |-> season_results],
                        tie_break, nulls_first)
       IN  calc' = [calc EXCEPT !.runs[r] =
                [pc |-> "pending",
                 seasons |-> after.seasons \ seasons,
                 season_results |-> after.season_results \ season_results]]
    /\ last' = Done("migrate_seasons_read", r, NULL, "ok")
    /\ DbUnchanged
    /\ UNCHANGED <<admin_fsm, setup_buttons, user_fsm, deliveries, today,
                   seasons, season_results>>

(* The inserts and the commit of a run.  seasons.number is UNIQUE: a       *)
(* Season row whose number has been stored since the read fails the        *)
(* insert, the exception leaves migrate_seasons and nothing of the run is  *)
(* stored.  season_results has no such constraint.                         *)
migrate_seasons_commit(r) ==
    /\ calc.kind = "rotation"
    /\ calc.runs[r].pc = "pending"
    /\ LET pending == calc.runs[r]
           clash == \E x \in pending.seasons, y \in seasons :
                        x.number = y.number
           rows == {[x EXCEPT !.season_id =
                        InsertedSeasonId(pending.seasons, x.season_id,
                                         Cardinality(seasons))]
                        : x \in pending.season_results}
       IN  IF clash
           THEN /\ UNCHANGED <<seasons, season_results>>
                /\ last' = Done("migrate_seasons", r, NULL, "integrity_error")
           ELSE /\ seasons' = seasons \cup
                        Renumbered(pending.seasons, Cardinality(seasons))
                /\ season_results' = season_results \cup
                        Renumbered(rows, Cardinality(season_results))
                /\ last' = Done("migrate_seasons", r, NULL, "ok")
    /\ calc' = [calc EXCEPT !.runs[r] = IdleRun]
    /\ DbUnchanged
    /\ UNCHANGED <<admin_fsm, setup_buttons, user_fsm, deliveries, today>>

(* One tournament of the first season and its forecasts, while rotation    *)
(* runs are started and reach their commit in any order.                   *)
InitRotationRace ==
    /\ \E roster \in SUBSET Players :
            tournaments = [t \in {1} |->
                [NewTournament(1, 0) EXCEPT !.participants = roster]]
    /\ forecasts = {}
    /\ nextForecastId = 1
    /\ users = [u \in Users |-> NewUser]
    /\ admin_fsm = [a \in Operators |->
            IF a = 1 THEN ManageTournamentsFsm ELSE AdminCleared]
    /\ setup_buttons = [a \in Operators |-> IF a = 1 THEN {1} ELSE {}]
    /\ user_fsm = [u \in Users |-> UserCleared]
    /\ deliveries = [u \in Users |-> <<>>]
    /\ seasons = {}
    /\ season_results = {}
    /\ today = 0
    /\ calc = [kind |-> "rotation", runs |-> [r \in Runs |-> IdleRun]]
    /\ last = Done("init", 0, NULL, "ok")

NextRotationRace ==
    \/ \E tid \in TournamentIds : cq_select_tournament_to_manage(1, tid)
    \/ \E tid \in TournamentIds : cq_publish_tournament(1, tid)
    \/ \E u \in Users, tid \in TournamentIds : cq_predict_start(u, tid)
    \/ \E u \in Users, p \in Players : cq_process_prediction_selection(u, p)
    \/ \E u \in Users : cq_predict_confirm_accept(u)
    \/ \E u \in Users : cq_predict_confirm(u)
    \/ \E r \in Runs, tie_break \in TieBreaks, nulls_first \in BOOLEAN :
            migrate_seasons_read(r, tie_break, nulls_first)
    \/ \E r \in Runs : migrate_seasons_commit(r)

SpecRotationRace == InitRotationRace /\ [][NextRotationRace]_vars

(* A published tournament with its roster; participants store a forecast   *)
(* on it and edit it, the store accepting or refusing the new row.         *)
InitEdit ==
    /\ \E count \in 1..MaxSlots, roster \in SUBSET Players :
            /\ Cardinality(roster) >= count
            /\ tournaments = [t \in {1} |->
                    [NewTournament(count, 0) EXCEPT !.participants = roster,
                                                    !.status = "OPEN"]]
    /\ forecasts = {}
    /\ nextForecastId = 1
    /\ users = [u \in Users |-> NewUser]
    /\ admin_fsm = [a \in Operators |-> AdminCleared]
    /\ setup_buttons = [a \in Operators |-> {}]
    /\ user_fsm = [u \in Users |-> UserCleared]
    /\ deliveries = [u \in Users |-> <<>>]
    /\ seasons = {}
    /\ season_results = {}
    /\ today = 0
    /\ calc = NoCalc
    /\ last = Done("init", 0, NULL, "ok")

NextEdit ==
    \/ \E u \in Users, tid \in TournamentIds : cq_predict_start(u, tid)
    \/ \E u \in Users, fid \in 1..MaxForecasts :
            cq_edit_forecast_confirm_yes_logic(u, fid)
    \/ \E u \in Users, p \in Players : cq_process_prediction_selection(u, p)
    \/ \E u \in Users : cq_predict_confirm_accept(u)
    \/ \E u \in Users, insert_fault \in BOOLEAN :
            cq_predict_confirm_failing(u, insert_fault)

SpecEdit == InitEdit /\ [][NextEdit]_vars

(* The finalize of SpecFinalize with the sends that follow the commit      *)
(* failing or not: the result messages reach every owner or none, and the  *)
(* exception before the commit comes before the first forecast.            *)
NextNotify ==
    \/ \E tid \in TournamentIds : cq_select_tournament_to_manage(1, tid)
    \/ \E tid \in TournamentIds : cq_publish_tournament(1, tid)
    \/ \E tid \in TournamentIds : cq_close_bets(1, tid)
    \/ \E tid \in TournamentIds : cq_set_results_start(1, tid)
    \/ \E p \in Players : cq_process_result_selection(1, p)
    \/ \E fault_at \in {NULL, 0},
          failed_sends \in {{}, Users}, admin_fault \in AdminFaults :
            cq_set_results_confirm_sending(1, fault_at, failed_sends,
                                           admin_fault)
    \/ \E u \in Users, tid \in TournamentIds : cq_predict_start(u, tid)
    \/ \E u \in Users, p \in Players : cq_process_prediction_selection(u, p)
    \/ \E u \in Users : cq_predict_confirm_accept(u)
    \/ \E u \in Users : cq_predict_confirm(u)

SpecNotify == InitRace /\ [][NextNotify]_vars

(* ----------------------- summaries of a tournament -------------------- *)
(* f.points_earned or 0                                                    *)
PointsOr0(f) == IF f.points_earned = NULL THEN 0 ELSE f.points_earned

(* The list sort of Python on integer keys: ascending and stable.          *)
RECURSIVE Sorted(_, _)
Sorted(seq, key) ==
    IF seq = <<>> THEN <<>>
    ELSE LET front == Sorted(SubSeq(seq, 1, Len(seq) - 1), key)
             x == seq[Len(seq)]
             k == Cardinality({i \in 1..Len(front) :
                                    key[front[i]] <= key[x]})
         IN  SubSeq(front, 1, k) \o <<x>> \o SubSeq(front, k + 1, Len(front))

(* A number above every id, timestamp and key component compared.          *)
KeyBase == 100

(* The summary sorted by the tuple (points, id) in reverse.                *)
all_forecasters_by_id_desc(loaded) ==
    Sorted(loaded, [f \in Range(loaded) |->
                        0 - (PointsOr0(f) * KeyBase + f.id)])

(* all_forecasters of cq_set_results_confirm: sorted on the tuple          *)
(* (points_earned or 0, -id) with reverse=True.                            *)
all_forecasters(loaded) ==
    Sorted(loaded, [f \in Range(loaded) |->
                        0 - (PointsOr0(f) * KeyBase - f.id)])

(* sorted_forecasts of cq_show_tournament_results: the reverse sort on     *)
(* (points_earned or 0, created_at), then the two stable sorts.            *)
sorted_forecasts(loaded) ==
    LET first == Sorted(loaded, [f \in Range(loaded) |->
                        0 - (PointsOr0(f) * KeyBase + f.created_at)])
        by_time == Sorted(first, [f \in Range(first) |-> f.created_at])
    IN  Sorted(by_time, [f \in Range(by_time) |-> 0 - PointsOr0(f)])

(* The inserts of cq_predict_confirm a history is made of.                 *)
MaxInserts == 3

(* The rows stored after the first n inserts of history h: insert n by     *)
(* user h[n].user, made h[n].tick after the one before, replaces the row   *)
(* the user has (an edit) or is the user's first; the store numbers the    *)
(* row and created_at is the time of the insert.                           *)
RECURSIVE StoredAfter(_, _)
StoredAfter(h, n) ==
    IF n = 0 THEN [rows |-> {}, clock |-> 0]
    ELSE LET before == StoredAfter(h, n - 1)
             clock == before.clock + h[n].tick
             own == {r \in before.rows : r.user_id = h[n].user}
             editing_forecast_id ==
                IF own = {} THEN NULL ELSE (CHOOSE r \in own : TRUE).id
             new_forecast == [id |-> n,
                              user_id |-> h[n].user,
                              tournament_id |-> 1,
                              prediction_data |-> <<h[n].pick>>,
                              points_earned |-> NULL,
                              created_at |-> clock]
         IN  [rows |-> ReplaceForecast(before.rows, editing_forecast_id,
                                       new_forecast, FALSE),
              clock |-> clock]

(* The orders in which the relationship can load the rows of S.            *)
LoadOrders(S) ==
    {q \in [1..Cardinality(S) -> S] :
        \A i \in 1..Cardinality(S), j \in 1..Cardinality(S) :
            q[i] = q[j] => i = j}

(* A tournament of one slot finalized with player 1 first after any        *)
(* history of submissions and edits; the summary of the finalize and the   *)
(* results view are then produced.                                         *)
InitSummary ==
    /\ \E n \in 0..MaxInserts :
       \E h \in [1..n -> [user : Ranked, pick : Players, tick : 0..1]] :
            LET live == [t \in {1} |->
                    [NewTournament(1, 0) EXCEPT !.status = "LIVE",
                                                !.participants = Players]]
                final == FinalizeAll(
                            [tournaments |-> live,
                             forecasts |-> StoredAfter(h, n).rows,
                             users |-> [u \in Ranked |-> NewUser]],
                            {1}, [t \in {1} |-> 1])
            IN  /\ tournaments = final.tournaments
                /\ forecasts = final.forecasts
                /\ users = final.users
                /\ nextForecastId = n + 1
    /\ admin_fsm = [a \in Operators |-> AdminCleared]
    /\ setup_buttons = [a \in Operators |-> {}]
    /\ user_fsm = [u \in Ranked |-> UserCleared]
    /\ deliveries = [u \in Ranked |-> <<>>]
    /\ seasons = {}
    /\ season_results = {}
    /\ today = 0
    /\ calc = [kind |-> "summary", view |-> "none", order |-> <<>>]
    /\ last = Done("init", 0, NULL, "ok")

(* The operator summary that ends cq_set_results_confirm.                  *)
admin_summary ==
    /\ calc.kind = "summary"
    /\ calc.view = "none"
    /\ \E loaded \in LoadOrders(forecasts) :
            calc' = [kind |-> "summary", view |-> "finalize",
                     order |-> all_forecasters(loaded)]
    /\ DbUnchanged
    /\ UNCHANGED <<admin_fsm, setup_buttons, user_fsm, deliveries, seasons,
                   season_results, today, last>>

cq_show_tournament_results ==
    /\ calc.kind = "summary"
    /\ calc.view # "results"
    /\ forecasts # {}
    /\ \E loaded \in LoadOrders(forecasts) :
            calc' = [kind |-> "summary", view |-> "results",
                     order |-> sorted_forecasts(loaded)]
    /\ DbUnchanged
    /\ UNCHANGED <<admin_fsm, setup_buttons, user_fsm, deliveries, seasons,
                   season_results, today, last>>

NextSummary == admin_summary \/ cq_show_tournament_results

SpecSummary == InitSummary /\ [][NextSummary]_vars

(* ------------------------------ streaks ------------------------------- *)
(* select(Tournament).where(status != DRAFT).order_by(date, id): the ids   *)
(* of the rows of ts in that order.                                        *)
RECURSIVE OrderByDateId(_, _)
OrderByDateId(ts, ids) ==
    IF ids = {} THEN <<>>
    ELSE LET t == CHOOSE x \in ids : \A y \in ids :
                        \/ ts[x].date < ts[y].date
                        \/ ts[x].date = ts[y].date /\ x <= y
         IN  <<t>> \o OrderByDateId(ts, ids \ {t})

NonDraft(ts) == {t \in DOMAIN ts : ts[t].status # "DRAFT"}

(* The loop over the tournaments from position i on: temp_streak and       *)
(* max_streak after it.                                                    *)
RECURSIVE StreakLoop(_, _, _, _, _)
StreakLoop(order, user_forecast_t_ids, i, temp_streak, max_streak) ==
    IF i > Len(order)
    THEN [temp_streak |-> temp_streak, max_streak |-> max_streak]
    ELSE IF order[i] \in user_forecast_t_ids
    THEN StreakLoop(order, user_forecast_t_ids, i + 1, temp_streak + 1,
                    max_streak)
    ELSE StreakLoop(order, user_forecast_t_ids, i + 1, 0,
                    IF temp_streak > max_streak THEN temp_streak
                    ELSE max_streak)

(* The return value of recalculate_user_streaks; NULL stands for the None  *)
(* of the bare return taken when no tournament is selected.                *)
StreaksOf(ts, fs, user_id) ==
    LET order == OrderByDateId(ts, NonDraft(ts))
        user_forecast_t_ids == {f.tournament_id :
                                    f \in {g \in fs : g.user_id = user_id}}
        after == StreakLoop(order, user_forecast_t_ids, 1, 0, 0)
    IN  IF order = <<>>
        THEN [current_streak |-> NULL, max_streak |-> NULL]
        ELSE [current_streak |-> after.temp_streak,
              max_streak |-> IF after.temp_streak > after.max_streak
                             THEN after.temp_streak ELSE after.max_streak]

(* handle_my_stats calls recalculate_user_streaks: the two values are     *)
(* written to the user row (columns streak_days and max_streak) and        *)
(* returned; nothing is written when no tournament is selected.            *)
recalculate_user_streaks(user_id) ==
    /\ calc.kind = "streaks"
    /\ ~calc.returned
    /\ LET ret == StreaksOf(tournaments, forecasts, user_id)
       IN  /\ calc' = [kind |-> "streaks", returned |-> TRUE,
                       user_id |-> user_id,
                       current_streak |-> ret.current_streak,
                       max_streak |-> ret.max_streak]
           /\ users' = IF ret.max_streak = NULL THEN users
                       ELSE [users EXCEPT
                                ![user_id].streak_days = ret.current_streak,
                                ![user_id].max_streak = ret.max_streak]
    /\ UNCHANGED <<tournaments, forecasts, nextForecastId, admin_fsm,
                   setup_buttons, user_fsm, deliveries, seasons,
                   season_results, today, last>>

(* handle_my_stats outside a followed call: the view of a participant.     *)
(* When no tournament is selected the call returns None, the unpacking in  *)
(* the handler raises and nothing is written.                              *)
handle_my_stats(user_id) ==
    /\ LET ret == StreaksOf(tournaments, forecasts, user_id)
       IN  /\ users' = IF ret.max_streak = NULL THEN users
                       ELSE [users EXCEPT
                                ![user_id].streak_days = ret.current_streak,
                                ![user_id].max_streak = ret.max_streak]
           /\ last' = Done("handle_my_stats", user_id, NULL,
                           IF ret.max_streak = NULL THEN "type_error"
                           ELSE "ok")
    /\ UNCHANGED <<tournaments, forecasts, nextForecastId, admin_fsm,
                   setup_buttons, user_fsm, deliveries, seasons,
                   season_results, today, calc>>

(* The bot in mid-life: tournament 1 is OPEN with the full roster, the     *)
(* users of owners have a stored forecast (the first slots of the roster,  *)
(* ids in the order of the users), at most one user stands at the          *)
(* confirmation screen of prediction.py with the reversed list (an edit    *)
(* for an owner, a first submit otherwise), and operator 1 has the         *)
(* tournament's menu open.                                                 *)
SlotsUp(count) == [i \in 1..count |-> i]

SlotsDown(count) == [i \in 1..count |-> count + 1 - i]

OwnerIndex(owners, u) == Cardinality({o \in owners : o <= u})

InitHandlers ==
    /\ \E count \in 1..MaxSlots, owners \in SUBSET Users,
          drafting \in SUBSET Users :
            /\ count <= NumPlayers
            /\ Cardinality(owners) < MaxForecasts
            /\ Cardinality(drafting) <= 1
            /\ tournaments = [t \in {1} |->
                    [NewTournament(count, 0) EXCEPT !.participants = Players,
                                                    !.status = "OPEN"]]
            /\ forecasts = {[id |-> OwnerIndex(owners, u), user_id |-> u,
                             tournament_id |-> 1,
                             prediction_data |-> SlotsUp(count),
                             points_earned |-> NULL] : u \in owners}
            /\ nextForecastId = Cardinality(owners) + 1
            /\ user_fsm = [u \in Users |->
                    IF u \in drafting
                    THEN [UserCleared EXCEPT
                            !.state = "confirming_forecast",
                            !.tournament_id = 1,
                            !.forecast_list = SlotsDown(count),
                            !.editing_forecast_id =
                                IF u \in owners THEN OwnerIndex(owners, u)
                                ELSE NULL,
                            !.prediction_count = count]
                    ELSE UserCleared]
    /\ users = [u \in Users |-> NewUser]
    /\ admin_fsm = [a \in Operators |->
            IF a = 1 THEN show_tournament_menu(AdminCleared, 1, tournaments)
            ELSE AdminCleared]
    /\ setup_buttons = [a \in Operators |->
            IF a = 1 THEN tournament_management_menu_kb({}, 1, tournaments)
            ELSE {}]
    /\ deliveries = [u \in Users |-> <<>>]
    /\ seasons = {}
    /\ season_results = {}
    /\ today = 0
    /\ calc = NoCalc
    /\ last = Done("init", 0, NULL, "ok")

(* Every kind of handler that is not the full recompute, for operator 1   *)
(* and the participants on the tournament of InitHandlers.                 *)
NextHandlers ==
    \/ \E tid \in TournamentIds : cq_remove_participant_start(1, tid)
    \/ \E p \in Players : cq_remove_participant_select(1, p)
    \/ \E tid \in TournamentIds : cq_close_bets(1, tid)
    \/ \E tid \in TournamentIds : cq_open_bets(1, tid)
    \/ \E tid \in TournamentIds : cq_set_results_start(1, tid)
    \/ \E p \in Players : cq_process_result_selection(1, p)
    \/ \E fault_at \in {NULL, 0} : cq_set_results_confirm(1, fault_at)
    \/ \E tid \in TournamentIds, fk_enforced \in BOOLEAN :
            cq_delete_tournament_execute(1, tid, fk_enforced)
    \/ \E u \in Users : cq_predict_confirm_accept(u)
    \/ \E u \in Users : cq_predict_confirm(u)
    \/ \E tie_break \in TieBreaks, nulls_first \in BOOLEAN :
            migrate_seasons(tie_break, nulls_first)
    \/ \E u \in Users : handle_my_stats(u)

SpecHandlers == InitHandlers /\ [][NextHandlers]_vars

(* The start is a state of Spec: up to MaxEvents tournaments created on    *)
(* either of two dates, each still a draft, published or locked, and the   *)
(* forecasts the participants have stored on the published ones.           *)
(* ------------------ selection callbacks in flight --------------------- *)
(* The dispatcher runs every update as a task of its own and               *)
(* Dispatcher(storage=storage) sets no events isolation: the state filter  *)
(* of a callback is evaluated on the state read when the update arrives    *)
(* (calc.predict, calc.results hold the callbacks that have passed it),    *)
(* and the handler body reads the FSM data when it runs.                   *)
cq_process_prediction_selection_filter(u, player_id) ==
    /\ calc.kind = "selection"
    /\ user_fsm[u].state = "making_prediction"
    /\ player_id \in user_fsm[u].kb
    /\ calc' = [calc EXCEPT !.predict = @ \cup {<<u, player_id>>}]
    /\ last' = Done("cq_process_prediction_selection", u,
                    user_fsm[u].tournament_id, "filtered")
    /\ UNCHANGED <<tournaments, forecasts, nextForecastId, users, admin_fsm,
                   setup_buttons, user_fsm, deliveries, seasons,
                   season_results, today>>

(* The body of cq_process_prediction_selection for a callback that has     *)
(* passed the filter, while the data of the dialogue is in the context.    *)
cq_process_prediction_selection_body(u, player_id) ==
    /\ calc.kind = "selection"
    /\ <<u, player_id>> \in calc.predict
    /\ user_fsm[u].state \in {"making_prediction", "confirming_forecast"}
    /\ LET fsm == user_fsm[u]
           tid == fsm.tournament_id
           forecast_list == Append(fsm.forecast_list, player_id)
       IN  /\ tid \in DOMAIN tournaments
           /\ IF player_id \in Range(fsm.forecast_list)
              THEN /\ last' = Done("cq_process_prediction_selection", u, tid,
                                   "already_selected")
                   /\ UNCHANGED user_fsm
              ELSE /\ last' = Done("cq_process_prediction_selection", u, tid,
                                   "ok")
                   /\ user_fsm' = [user_fsm EXCEPT ![u] =
                        IF Len(forecast_list) + 1 <= fsm.prediction_count
                        THEN [fsm EXCEPT !.forecast_list = forecast_list,
                                         !.state = "making_prediction",
                                         !.kb = tournaments[tid].participants]
                        ELSE [fsm EXCEPT !.forecast_list = forecast_list,
                                         !.kb = {},
                                         !.state = "confirming_forecast"]]
    /\ calc' = [calc EXCEPT !.predict = @ \ {<<u, player_id>>}]
    /\ UNCHANGED <<tournaments, forecasts, nextForecastId, users, admin_fsm,
                   setup_buttons, deliveries, seasons, season_results, today>>

cq_process_result_selection_filter(a, player_id) ==
    /\ calc.kind = "selection"
    /\ admin_fsm[a].state = "entering_results"
    /\ player_id \in admin_fsm[a].kb
    /\ calc' = [calc EXCEPT !.results = @ \cup {<<a, player_id>>}]
    /\ last' = Done("cq_process_result_selection", a,
                    admin_fsm[a].managed_tournament_id, "filtered")
    /\ UNCHANGED <<tournaments, forecasts, nextForecastId, users, admin_fsm,
                   setup_buttons, user_fsm, deliveries, seasons,
                   season_results, today>>

cq_process_result_selection_body(a, player_id) ==
    /\ calc.kind = "selection"
    /\ <<a, player_id>> \in calc.results
    /\ admin_fsm[a].state \in {"entering_results", "confirming_results"}
    /\ LET fsm == admin_fsm[a]
           tid == fsm.managed_tournament_id
           results_list == Append(fsm.results_list, player_id)
       IN  /\ tid \in DOMAIN tournaments
           /\ IF player_id \in Range(fsm.results_list)
              THEN /\ last' = Done("cq_process_result_selection", a, tid,
                                   "already_selected")
                   /\ UNCHANGED admin_fsm
              ELSE /\ last' = Done("cq_process_result_selection", a, tid, "ok")
                   /\ admin_fsm' = [admin_fsm EXCEPT ![a] =
                        IF Len(results_list) + 1 <= fsm.prediction_count
                        THEN [fsm EXCEPT !.results_list = results_list,
                                         !.state = "entering_results",
                                         !.kb = tournaments[tid].participants]
                        ELSE [fsm EXCEPT !.results_list = results_list,
                                         !.kb = {},
                                         !.state = "confirming_results"]]
    /\ calc' = [calc EXCEPT !.results = @ \ {<<a, player_id>>}]
    /\ UNCHANGED <<tournaments, forecasts, nextForecastId, users,
                   setup_buttons, user_fsm, deliveries, seasons,
                   season_results, today>>

(* A published tournament with a sufficient roster, its menu open at       *)
(* operator 1, no selection callback in flight.                            *)
InitSelect ==
    /\ \E count \in 1..MaxSlots, roster \in SUBSET Players :
            /\ Cardinality(roster) >= count
            /\ tournaments = [t \in {1} |->
                    [NewTournament(count, 0) EXCEPT !.participants = roster,
                                                    !.status = "OPEN"]]
    /\ forecasts = {}
    /\ nextForecastId = 1
    /\ users = [u \in Users |-> NewUser]
    /\ admin_fsm = [a \in Operators |->
            IF a = 1 THEN show_tournament_menu(AdminCleared, 1, tournaments)
            ELSE AdminCleared]
    /\ setup_buttons = [a \in Operators |->
            IF a = 1 THEN tournament_management_menu_kb({}, 1, tournaments)
            ELSE {}]
    /\ user_fsm = [u \in Users |-> UserCleared]
    /\ deliveries = [u \in Users |-> <<>>]
    /\ seasons = {}
    /\ season_results = {}
    /\ today = 0
    /\ calc = [kind |-> "selection", predict |-> {}, results |-> {}]
    /\ last = Done("init", 0, NULL, "ok")

NextSelect ==
    \/ \E u \in Users, tid \in TournamentIds : cq_predict_start(u, tid)
    \/ \E u \in Users, fid \in 1..MaxForecasts :
            cq_edit_forecast_confirm_yes_logic(u, fid)
    \/ \E u \in Users, p \in Players :
            cq_process_prediction_selection_filter(u, p)
    \/ \E u \in Users, p \in Players :
            cq_process_prediction_selection_body(u, p)
    \/ \E u \in Users : cq_predict_confirm_accept(u)
    \/ \E u \in Users : cq_predict_confirm(u)
    \/ \E tid \in TournamentIds : cq_close_bets(1, tid)
    \/ \E tid \in TournamentIds : cq_set_results_start(1, tid)
    \/ \E p \in Players : cq_process_result_selection_filter(1, p)
    \/ \E p \in Players : cq_process_result_selection_body(1, p)
    \/ cq_set_results_confirm(1, NULL)

SpecSelect == InitSelect /\ [][NextSelect]_vars

(* ------------------------- the full recompute ------------------------- *)
(* recalculate_all_scores: every user's statistics are reset, then every   *)
(* FINISHED tournament with results is scored again from its stored        *)
(* results (the keys and ranks cast to int) with the loop body of the      *)
(* finalize, and all of it is committed at once.  The streak columns are   *)
(* not touched.                                                            *)
ResetStats(user) ==
    [user EXCEPT !.total_points = 0, !.total_slots = 0,
                 !.accuracy_rate = 0, !.avg_error = 0,
                 !.tournaments_played = 0, !.exact_guesses = 0,
                 !.perfect_tournaments = 0]

RECURSIVE RecalculateTournaments(_, _)
RecalculateTournaments(sess, tids) ==
    IF tids = {} THEN sess
    ELSE LET tid == CHOOSE t \in tids : \A o \in tids : t <= o
             results_dict == sess.tournaments[tid].results
             order == SortById({f \in sess.forecasts :
                                    f.tournament_id = tid})
         IN  RecalculateTournaments(
                IF results_dict = EmptyResults THEN sess
                ELSE ProcessForecasts(sess, order, Len(order), results_dict),
                tids \ {tid})

RecalculateAllScores(stored) ==
    RecalculateTournaments(
        [stored EXCEPT !.users = [u \in DOMAIN stored.users |->
                                        ResetStats(stored.users[u])]],
        {t \in DOMAIN stored.tournaments :
            stored.tournaments[t].status = "FINISHED"})

recalculate_all_scores ==
    /\ LET after == RecalculateAllScores(
                        [tournaments |-> tournaments,
                         forecasts |-> forecasts, users |-> users])
       IN  /\ forecasts' = after.forecasts
           /\ users' = after.users
    /\ last' = [op |-> "recalculate_all_scores", tid |-> NULL,
                outcome |-> "ok", arg |-> NULL, sent |-> {},
                summary |-> FALSE]
    /\ UNCHANGED <<tournaments, nextForecastId, admin_fsm, setup_buttons,
                   user_fsm, deliveries, seasons, season_results, today,
                   calc>>

(* The run of SpecRace with the script started at any moment.              *)
NextRecompute ==
    \/ \E a \in Operators, tid \in TournamentIds :
            cq_select_tournament_to_manage(a, tid)
    \/ \E a \in Operators, tid \in TournamentIds :
            cq_publish_tournament(a, tid)
    \/ \E a \in Operators, tid \in TournamentIds : cq_close_bets(a, tid)
    \/ \E a \in Operators, tid \in TournamentIds :
            cq_set_results_start(a, tid)
    \/ \E a \in Operators, p \in Players : cq_process_result_selection(a, p)
    \/ \E a \in Operators : cq_set_results_confirm(a, NULL)
    \/ \E u \in Users, tid \in TournamentIds : cq_predict_start(u, tid)
    \/ \E u \in Users, p \in Players : cq_process_prediction_selection(u, p)
    \/ \E u \in Users : cq_predict_confirm_accept(u)
    \/ \E u \in Users : cq_predict_confirm(u)
    \/ recalculate_all_scores

SpecRecompute == InitRace /\ [][NextRecompute]_vars

(* -------------------------- season windows --------------------------- *)
(* The two functions of seasonal.py called on a season number and a date:  *)
(* calc holds the arguments and, once a function has returned, its value   *)
(* (the window of the season and of the next one, the number of the date). *)
MaxWindow == 4

WindowDays == (0 - 7)..(7 * MaxWindow + 6)

InitWindows ==
    /\ tournaments = [t \in {} |-> NewTournament(1, 0)]
    /\ forecasts = {}
    /\ nextForecastId = 1
    /\ users = [u \in Users |-> NewUser]
    /\ admin_fsm = [a \in Operators |-> AdminCleared]
    /\ setup_buttons = [a \in Operators |-> {}]
    /\ user_fsm = [u \in Users |-> UserCleared]
    /\ deliveries = [u \in Users |-> <<>>]
    /\ seasons = {}
    /\ season_results = {}
    /\ today = 0
    /\ \E n \in 1..MaxWindow, d \in WindowDays :
            calc = [kind |-> "window", season_number |-> n, date_obj |-> d,
                    dates |-> <<>>, next_dates |-> <<>>, number |-> NULL]
    /\ last = Done("init", 0, NULL, "ok")

get_season_dates_call ==
    /\ calc.kind = "window"
    /\ calc.dates = <<>>
    /\ calc' = [calc EXCEPT
                    !.dates = get_season_dates(calc.season_number),
                    !.next_dates = get_season_dates(calc.season_number + 1)]
    /\ UNCHANGED <<tournaments, forecasts, nextForecastId, users, admin_fsm,
                   setup_buttons, user_fsm, deliveries, seasons,
                   season_results, today, last>>

get_season_number_call ==
    /\ calc.kind = "window"
    /\ calc.number = NULL
    /\ calc' = [calc EXCEPT !.number = get_season_number(calc.date_obj)]
    /\ UNCHANGED <<tournaments, forecasts, nextForecastId, users, admin_fsm,
                   setup_buttons, user_fsm, deliveries, seasons,
                   season_results, today, last>>

NextWindows == get_season_dates_call \/ get_season_number_call

SpecWindows == InitWindows /\ [][NextWindows]_vars

InitStreaks ==
    /\ \E k \in 0..MaxEvents :
       \E dates \in [1..k -> {0, 7}],
          status \in [1..k -> {"DRAFT", "OPEN", "LIVE"}],
          played \in [1..k -> SUBSET Users] :
            /\ \A t \in 1..k : status[t] = "DRAFT" => played[t] = {}
            /\ tournaments = [t \in 1..k |->
                    [NewTournament(1, dates[t]) EXCEPT
                        !.status = status[t], !.participants = Players]]
            /\ forecasts = {[id |-> (t - 1) * NumUsers + u,
                             user_id |-> u,
                             tournament_id |-> t,
                             prediction_data |-> <<1>>,
                             points_earned |-> NULL]
                                : <<u, t>> \in {x \in Users \X (1..k) :
                                                    x[1] \in played[x[2]]}}
    /\ nextForecastId = NumUsers * MaxEvents + 1
    /\ users = [u \in Users |-> NewUser]
    /\ admin_fsm = [a \in Operators |-> AdminCleared]
    /\ setup_buttons = [a \in Operators |-> {}]
    /\ user_fsm = [u \in Users |-> UserCleared]
    /\ deliveries = [u \in Users |-> <<>>]
    /\ seasons = {}
    /\ season_results = {}
    /\ today = 0
    /\ calc = [kind |-> "streaks", returned |-> FALSE, user_id |-> NULL,
               current_streak |-> 0, max_streak |-> 0]
    /\ last = Done("init", 0, NULL, "ok")

NextStreaks == \E u \in Users : recalculate_user_streaks(u)

SpecStreaks == InitStreaks /\ [][NextStreaks]_vars

(* ============================ properties ============================== *)
StoredUnchanged ==
    /\ tournaments' = tournaments
    /\ forecasts' = forecasts
    /\ users' = users

ForecastsOf(tid) == {f \in forecasts : f.tournament_id = tid}

(* C1: finalize is all-or-nothing.  A cq_set_results_confirm step in       *)
(* which an exception is raised after any number of forecasts has been     *)
(* scored changes no stored row: the tournament keeps its status and its   *)
(* results, no forecast of it gets points_earned, and no user's running    *)
(* totals change.                                                          *)
C1_FinalizeAllOrNothing ==
    [][(last'.op = "cq_set_results_confirm" /\ last'.outcome = "rolled_back")
        => /\ StoredUnchanged
           /\ \A tid \in DOMAIN tournaments :
                tournaments[tid].status = "LIVE"
                    => /\ tournaments'[tid].status = "LIVE"
                       /\ tournaments'[tid].results = tournaments[tid].results
           /\ \A f \in forecasts' :
                f.tournament_id = last'.tid
                    => \E g \in forecasts :
                            g.id = f.id /\ g.points_earned = f.points_earned
           /\ \A u \in Users : users'[u] = users[u]]_vars

(* A fault after at least one forecast of a LIVE tournament was scored:    *)
(* the tournament is still LIVE without results and its forecasts are      *)
(* unscored.                                                               *)
C1_Witness ==
    /\ last.op = "cq_set_results_confirm"
    /\ last.outcome = "rolled_back"
    /\ last.arg >= 1
    /\ last.tid \in DOMAIN tournaments
    /\ tournaments[last.tid].status = "LIVE"
    /\ tournaments[last.tid].results = EmptyResults
    /\ ForecastsOf(last.tid) # {}
    /\ \A f \in ForecastsOf(last.tid) : f.points_earned = NULL
    /\ \A u \in Users : users[u] = NewUser

(* C2: finalize applied to a tournament whose stored status is not LIVE    *)
(* at the moment the results are confirmed is rejected and changes no      *)
(* tournament, forecast or user row.                                       *)
C2_FinalizeOnlyFromLive ==
    [][(/\ last'.op = "cq_set_results_confirm"
        /\ last'.tid \in DOMAIN tournaments
        /\ tournaments[last'.tid].status # "LIVE")
        => (StoredUnchanged /\ last'.outcome # "committed")]_vars

(* C3: every forecast is folded into its owner's totals at most once: a    *)
(* user's total_points is the sum of points_earned over the user's         *)
(* forecasts on FINISHED tournaments and tournaments_played is their       *)
(* number.                                                                 *)
FinishedForecasts(u) ==
    {f \in forecasts :
        /\ f.user_id = u
        /\ f.tournament_id \in DOMAIN tournaments
        /\ tournaments[f.tournament_id].status = "FINISHED"}

RECURSIVE SumPoints(_)
SumPoints(S) ==
    IF S = {} THEN 0
    ELSE LET f == CHOOSE x \in S : TRUE
         IN  (IF f.points_earned = NULL THEN 0 ELSE f.points_earned)
                + SumPoints(S \ {f})

C3_TotalsMatchForecasts ==
    \A u \in Users :
        /\ users[u].total_points = SumPoints(FinishedForecasts(u))
        /\ users[u].tournaments_played = Cardinality(FinishedForecasts(u))

(* C4: the stored status changes only along DRAFT->OPEN, OPEN->LIVE,       *)
(* LIVE->OPEN and LIVE->FINISHED; FINISHED is never left.                  *)
AllowedStatusChange ==
    {<<"DRAFT", "OPEN">>, <<"OPEN", "LIVE">>, <<"LIVE", "OPEN">>,
     <<"LIVE", "FINISHED">>}

C4_StatusTransitions ==
    [][\A tid \in DOMAIN tournaments :
        /\ tid \in DOMAIN tournaments'
        /\ \/ tournaments'[tid].status = tournaments[tid].status
           \/ <<tournaments[tid].status, tournaments'[tid].status>>
                \in AllowedStatusChange]_vars

(* C5: a new forecast row is stored only if the tournament's status is     *)
(* OPEN when the row is committed.                                         *)
ForecastIds(rows) == {f.id : f \in rows}

C5_SubmitOnlyWhileOpen ==
    [][\A f \in forecasts' :
        f.id \notin ForecastIds(forecasts)
            => /\ f.tournament_id \in DOMAIN tournaments
               /\ tournaments[f.tournament_id].status = "OPEN"]_vars

(* C6: once a tournament is LIVE or FINISHED none of its forecasts is      *)
(* deleted or replaced: every such row keeps its id, owner and             *)
(* prediction, and a scored row keeps its points_earned.                   *)
C6_ForecastsFrozenAfterLock ==
    [][\A f \in forecasts :
        (/\ f.tournament_id \in DOMAIN tournaments
         /\ tournaments[f.tournament_id].status \in {"LIVE", "FINISHED"})
            => \E g \in forecasts' :
                    /\ g.id = f.id
                    /\ g.user_id = f.user_id
                    /\ g.tournament_id = f.tournament_id
                    /\ g.prediction_data = f.prediction_data
                    /\ (tournaments[f.tournament_id].status = "FINISHED"
                            => g.points_earned = f.points_earned)]_vars

(* C7: at most one forecast row exists per (user, tournament) pair.        *)
C7_OneForecastPerPair ==
    \A f \in forecasts, g \in forecasts :
        (f.user_id = g.user_id /\ f.tournament_id = g.tournament_id)
            => f.id = g.id

(* C8: the results of a tournament are empty while its status is not       *)
(* FINISHED, and stored results are never changed afterwards.              *)
C8_ResultsWriteOnce ==
    [][\A tid \in DOMAIN tournaments' :
        /\ tournaments'[tid].status # "FINISHED"
                => tournaments'[tid].results = EmptyResults
        /\ (tid \in DOMAIN tournaments
                /\ tournaments[tid].results # EmptyResults)
                => tournaments'[tid].results = tournaments[tid].results]_vars

(* C9: the roster of a LIVE or FINISHED tournament is never changed: add   *)
(* and remove succeed only while the status is DRAFT or OPEN.              *)
C9_RosterFrozenAfterLock ==
    [][\A tid \in DOMAIN tournaments :
        tournaments[tid].status \in {"LIVE", "FINISHED"}
            => /\ tid \in DOMAIN tournaments'
               /\ tournaments'[tid].participants
                    = tournaments[tid].participants]_vars

(* C10: publish on a DRAFT tournament with fewer participants than         *)
(* prediction_count is rejected before any write and the status stays      *)
(* DRAFT; with at least prediction_count participants the status           *)
(* becomes OPEN.                                                           *)
C10_PublishGuard ==
    [][\A tid \in DOMAIN tournaments :
        (/\ last'.op = "cq_publish_tournament"
         /\ last'.tid = tid
         /\ tournaments[tid].status = "DRAFT")
            => IF Cardinality(tournaments[tid].participants)
                    < tournaments[tid].prediction_count
               THEN /\ StoredUnchanged
                    /\ tournaments'[tid].status = "DRAFT"
                    /\ last'.outcome = "too_few_participants"
               ELSE /\ tournaments'[tid].status = "OPEN"
                    /\ last'.outcome = "ok"]_vars

(* A publish attempt that was rejected for its roster.                     *)
C10_Witness ==
    /\ last.op = "cq_publish_tournament"
    /\ last.outcome = "too_few_participants"
    /\ last.tid \in DOMAIN tournaments
    /\ tournaments[last.tid].status = "DRAFT"
    /\ Cardinality(tournaments[last.tid].participants)
            < tournaments[last.tid].prediction_count

(* The season tables as one value.                                         *)
SeasonTables == [seasons |-> seasons, season_results |-> season_results]

(* C11: season rotation is idempotent.  A migrate_seasons run that follows *)
(* a migrate_seasons run with no other operation in between leaves the     *)
(* Season rows and the SeasonResult rows (participants, ranks, points and  *)
(* tournaments_played) exactly as the first run left them, whatever order  *)
(* the store returns equal or NULL sums in.                                *)
C11_RotationIdempotent ==
    [][(last.op = "migrate_seasons" /\ last'.op = "migrate_seasons")
        => (seasons' = seasons /\ season_results' = season_results)]_vars

(* A rotation has archived a season with a scored forecast, and a further  *)
(* run on these tables returns them as they are.                           *)
C11_Witness ==
    /\ last.op = "migrate_seasons"
    /\ seasons # {}
    /\ \E r \in season_results : r.points > 0
    /\ \A tie_break \in TieBreaks, nulls_first \in BOOLEAN :
            RotationResult(tournaments, forecasts, SeasonTables,
                           tie_break, nulls_first) = SeasonTables

(* The Season row a SeasonResult row belongs to, among the rows ss.        *)
SeasonOf(r, ss) == CHOOSE x \in ss : x.id = r.season_id

(* The forecasts of user u on FINISHED tournaments whose date lies in the  *)
(* window of season.                                                       *)
FinishedInWindow(u, season) ==
    {f \in FinishedForecasts(u) :
        /\ season.start_date <= tournaments[f.tournament_id].date
        /\ tournaments[f.tournament_id].date <= season.end_date}

(* C12: in every reachable state, the points of every SeasonResult row     *)
(* equal the sum of the participant's points_earned over the FINISHED      *)
(* tournaments dated inside the season's window, also when a tournament of *)
(* the window is finalized after a rotation run.                           *)
C12_SeasonPointsMatchForecasts ==
    \A r \in season_results :
        r.points = SumPoints(FinishedInWindow(r.user_id,
                                              SeasonOf(r, seasons)))

(* C13: rotation writes SeasonResult rows only for a season whose 7-day    *)
(* window has fully elapsed at the time of the run: the season of every    *)
(* row a step adds ended before the current date.                          *)
C13_ArchiveOnlyElapsedSeasons ==
    [][\A r \in season_results' \ season_results :
            SeasonOf(r, seasons').end_date < today]_vars

(* C14: rotation aggregates only FINISHED tournaments: every row a step    *)
(* adds is for a participant with at least one scored forecast on a        *)
(* FINISHED tournament of the season's window, and its tournaments_played  *)
(* counts the participant's forecasts on FINISHED tournaments of the       *)
(* window only.                                                            *)
C14_ArchiveOnlyFinished ==
    [][\A r \in season_results' \ season_results :
            LET scored == FinishedInWindow(r.user_id,
                                           SeasonOf(r, seasons'))
            IN  /\ \E f \in scored : f.points_earned # NULL
                /\ r.tournaments_played = Cardinality(scored)]_vars

(* A scoring call has returned.                                            *)
Scored == calc.kind = "score" /\ calc.returned

(* The slots of the forecast whose player has exactly the predicted rank,  *)
(* and those whose player is in the results at another rank.               *)
ExactSlots ==
    {i \in 1..Len(calc.prediction_data) :
        /\ calc.prediction_data[i] \in DOMAIN calc.results_data
        /\ calc.results_data[calc.prediction_data[i]] = i}

NearSlots ==
    {i \in 1..Len(calc.prediction_data) :
        /\ calc.prediction_data[i] \in DOMAIN calc.results_data
        /\ calc.results_data[calc.prediction_data[i]] # i}

(* C15: for every N >= 1, a forecast whose N slots are all exact (the      *)
(* player of slot i has rank i) scores exactly 5*N + 15 points with        *)
(* exact_hits = N.                                                         *)
C15_AllExactScore ==
    (Scored /\ Len(calc.prediction_data) >= 1
            /\ Cardinality(ExactSlots) = Len(calc.prediction_data))
        => /\ calc.points = 5 * Len(calc.prediction_data) + 15
           /\ calc.exact_hits = Len(calc.prediction_data)

C15_Witness ==
    /\ Scored
    /\ Len(calc.prediction_data) >= 2
    /\ Cardinality(ExactSlots) = Len(calc.prediction_data)
    /\ calc.points = 5 * Len(calc.prediction_data) + 15

(* C16: for every N >= 0, a forecast of N players none of whom is in the   *)
(* results scores 0 points with exact_hits = 0, and its error list has N   *)
(* entries, each equal to N; the empty forecast scores 0 without bonus.    *)
C16_NoOverlapScore ==
    (Scored /\ Range(calc.prediction_data) \cap DOMAIN calc.results_data = {})
        => /\ calc.points = 0
           /\ calc.exact_hits = 0
           /\ Len(calc.diffs) = Len(calc.prediction_data)
           /\ \A i \in 1..Len(calc.diffs) :
                    calc.diffs[i] = Len(calc.prediction_data)

C16_Witness ==
    /\ Scored
    /\ Len(calc.prediction_data) >= 2
    /\ DOMAIN calc.results_data # {}
    /\ Range(calc.prediction_data) \cap DOMAIN calc.results_data = {}
    /\ calc.diffs = [i \in 1..Len(calc.prediction_data) |->
                        Len(calc.prediction_data)]

(* C17: for any forecast of N distinct players and any results, the        *)
(* points are 5 per exact slot plus 1 per slot whose player is in the      *)
(* results at another rank, plus 15 exactly when N > 0 and all N slots are *)
(* exact; the error list has N entries and exact_hits is the number of     *)
(* exact slots.  E.g. <<A, B, C>> against A:1, B:3, C:2 gives 7 points,    *)
(* exact_hits 1, no bonus.                                                 *)
C17_ScoreFormula ==
    Scored =>
        /\ calc.points = 5 * Cardinality(ExactSlots) + Cardinality(NearSlots)
                + (IF /\ Len(calc.prediction_data) > 0
                      /\ Cardinality(ExactSlots) = Len(calc.prediction_data)
                   THEN 15 ELSE 0)
        /\ Len(calc.diffs) = Len(calc.prediction_data)
        /\ calc.exact_hits = Cardinality(ExactSlots)

C17_Witness ==
    /\ Scored
    /\ calc.prediction_data = <<1, 2, 3>>
    /\ calc.results_data = [c \in {1, 2, 3} |-> IF c = 1 THEN 1
                                                ELSE IF c = 2 THEN 3 ELSE 2]
    /\ calc.points = 7
    /\ calc.exact_hits = 1

(* Two results dictionaries agree on the players of S.                     *)
AgreeOn(S, r1, r2) ==
    \A c \in S :
        /\ c \in DOMAIN r1 <=> c \in DOMAIN r2
        /\ c \in DOMAIN r1 => r1[c] = r2[c]

(* C18: for a fixed forecast, two results dictionaries that agree on the   *)
(* predicted players (the same of them present, at the same ranks) give    *)
(* the same points, error list and exact_hits, whatever entries they hold  *)
(* for players that are not in the forecast.                               *)
C18_UnpredictedEntriesIgnored ==
    [][(/\ Scored
        /\ calc'.kind = "score" /\ calc'.returned
        /\ calc'.prediction_data = calc.prediction_data
        /\ AgreeOn(Range(calc.prediction_data), calc.results_data,
                   calc'.results_data))
        => /\ calc'.points = calc.points
           /\ calc'.diffs = calc.diffs
           /\ calc'.exact_hits = calc.exact_hits]_vars

C18_Witness ==
    /\ Scored
    /\ calc.again
    /\ calc.points > 0
    /\ DOMAIN calc.results_data \ Range(calc.prediction_data) # {}

(* The update was applied once, to a user without history, for a forecast  *)
(* with at least one slot.                                                 *)
FirstApplied ==
    /\ calc.kind = "stats"
    /\ Len(calc.applied) = 1
    /\ Len(calc.applied[1].diffs) >= 1

(* C19 as stated: from total_slots = 0, a single forecast of N >= 1 slots  *)
(* with k exact hits yields accuracy_rate = 100*k/N and avg_error = (sum   *)
(* of the N errors)/N exactly.  Both rates are in hundredths.              *)
C19_FirstRatesExact ==
    FirstApplied =>
        LET a == calc.applied[1]
            N == Len(a.diffs)
        IN  /\ calc.user.accuracy_rate * N = 10000 * a.exact_hits
            /\ calc.user.avg_error * N = 100 * SumSeq(a.diffs)

(* C19 amended: from total_slots = 0, a single forecast of N >= 1 slots    *)
(* with k exact hits yields accuracy_rate = 100*k/N and avg_error = (sum   *)
(* of the N errors)/N, each rounded to 2 decimals: the stored rate is a    *)
(* multiple of 0.01 at most 0.005 away from the quotient.                  *)
C19_FirstRatesRounded ==
    FirstApplied =>
        LET a == calc.applied[1]
            N == Len(a.diffs)
        IN  /\ 2 * Abs(calc.user.accuracy_rate * N - 10000 * a.exact_hits)
                    <= N
            /\ 2 * Abs(calc.user.avg_error * N - 100 * SumSeq(a.diffs)) <= N

(* Three slots, one exact hit: the stored accuracy is 33.33.               *)
C19_Witness ==
    /\ FirstApplied
    /\ Len(calc.applied[1].diffs) = 3
    /\ calc.applied[1].exact_hits = 1
    /\ calc.user.accuracy_rate = 3333

(* C20: the update applied for forecast A and then for forecast B leaves   *)
(* the same total_points and total_slots as the update applied once with   *)
(* the summed points, the concatenated error lists and the summed exact    *)
(* hits of A and B.                                                        *)
C20_StatsAdditive ==
    (calc.kind = "stats" /\ calc.merged)
        => /\ calc.user.total_points = calc.once.total_points
           /\ calc.user.total_slots = calc.once.total_slots

C20_Witness ==
    /\ calc.kind = "stats"
    /\ calc.merged
    /\ Len(calc.applied[1].diffs) >= 1
    /\ Len(calc.applied[2].diffs) >= 2
    /\ calc.applied[1].points > 0
    /\ calc.applied[2].points > 0
    /\ calc.once.total_points
            = calc.applied[1].points + calc.applied[2].points
    /\ calc.once.total_slots
            = Len(calc.applied[1].diffs) + Len(calc.applied[2].diffs)

(* The season numbers rotation derives from the stored tournaments.        *)
StoredSeasonNumbers ==
    {get_season_number(tournaments[t].date) : t \in DOMAIN tournaments}

(* C21: the anchor date and the date 6 days later are in season 1, the     *)
(* date 7 days later is in season 2, every date before the anchor is in    *)
(* season 0, and rotation creates no Season row and no SeasonResult row    *)
(* for season 0: every Season row has a number >= 1 and a window that      *)
(* starts on or after the anchor, and every SeasonResult row belongs to    *)
(* such a Season row.                                                      *)
C21_SeasonNumbering ==
    /\ get_season_number(0) = 1
    /\ get_season_number(6) = 1
    /\ get_season_number(7) = 2
    /\ \A d \in (0 - 7 * MaxSeasons)..(0 - 1) : get_season_number(d) = 0
    /\ \A t \in DOMAIN tournaments :
            tournaments[t].date < 0
                <=> get_season_number(tournaments[t].date) = 0
    /\ \A x \in seasons : x.number >= 1 /\ x.start_date >= 0
    /\ \A r \in season_results :
            \E x \in seasons : x.id = r.season_id /\ x.number >= 1

(* A rotation has run over a tournament dated before the anchor that has a *)
(* forecast, and no Season row stands for it.                              *)
C21_Witness ==
    /\ last.op = "migrate_seasons"
    /\ 0 \in StoredSeasonNumbers
    /\ \E f \in forecasts : tournaments[f.tournament_id].date < 0
    /\ \A x \in seasons : x.number \in StoredSeasonNumbers \ {0}

(* The non-draft tournaments in (date, id) order, and whether the user has *)
(* a forecast for the one at position i.                                   *)
Timeline == OrderByDateId(tournaments, NonDraft(tournaments))

Played(u, i) ==
    \E f \in forecasts : f.user_id = u /\ f.tournament_id = Timeline[i]

(* The length of the run of played tournaments that ends at position i.    *)
RunEndingAt(u, i) ==
    CHOOSE n \in 0..i :
        /\ \A j \in (i - n + 1)..i : Played(u, j)
        /\ n < i => ~Played(u, i - n)

LongestRun(u) ==
    IF Timeline = <<>> THEN 0
    ELSE CHOOSE n \in 0..Len(Timeline) :
            /\ \E i \in 1..Len(Timeline) : RunEndingAt(u, i) = n
            /\ \A i \in 1..Len(Timeline) : RunEndingAt(u, i) <= n

TrailingRun(u) ==
    IF Timeline = <<>> THEN 0 ELSE RunEndingAt(u, Len(Timeline))

(* C22: for any (date, id)-ordered list of non-draft tournaments and any   *)
(* participant, the max_streak returned is the length of the longest run   *)
(* of consecutive tournaments the participant has a forecast for, and the  *)
(* current_streak returned is the length of the run ending at the last     *)
(* tournament of the list (0 without a forecast for it).                   *)
C22_StreaksMatchRuns ==
    (calc.kind = "streaks" /\ calc.returned)
        => /\ calc.max_streak = LongestRun(calc.user_id)
           /\ calc.current_streak = TrailingRun(calc.user_id)

(* C23: deleting a tournament deletes every forecast of it: after a        *)
(* deletion no stored forecast refers to the deleted tournament.           *)
C23_DeleteCascades ==
    [][(/\ last'.op = "cq_delete_tournament_execute"
        /\ last'.outcome = "deleted")
        => \A f \in forecasts' : f.tournament_id # last'.tid]_vars

(* The forecasts of user u on tournament tid.                              *)
OwnedOn(u, tid) == {f \in forecasts : f.user_id = u /\ f.tournament_id = tid}

(* C24: a failure of a result message or of the operator summary after the *)
(* finalize has committed leaves the committed rows as they are (the       *)
(* tournament FINISHED with its results, points_earned set on every        *)
(* forecast of it, the totals of the owners updated), and a finalize that  *)
(* did not commit sends no result message.                                 *)
C24_SendFailuresKeepCommit ==
    [][last'.op = "cq_set_results_confirm"
        => /\ last'.outcome = "committed" =>
                /\ tournaments'[last'.tid].status = "FINISHED"
                /\ tournaments'[last'.tid].results # EmptyResults
                /\ \A f \in forecasts' :
                        f.tournament_id = last'.tid => f.points_earned # NULL
                /\ \A u \in Users :
                        users'[u].tournaments_played
                            = users[u].tournaments_played
                                + Cardinality(OwnedOn(u, last'.tid))
           /\ last'.outcome # "committed" =>
                (last'.sent = {} /\ ~last'.summary)]_vars

(* A finalize has committed, the result message of a forecast owner and    *)
(* the summary were not delivered, and the forecast is scored.             *)
C24_Witness ==
    /\ last.op = "cq_set_results_confirm"
    /\ last.outcome = "committed"
    /\ ~last.summary
    /\ \E f \in forecasts :
            /\ f.tournament_id = last.tid
            /\ f.user_id \notin last.sent
            /\ f.points_earned # NULL
            /\ users[f.user_id].tournaments_played >= 1
    /\ tournaments[last.tid].status = "FINISHED"

(* The SeasonResult rows of the Season row s among rows.                   *)
RowsOf(s, rows) == {r \in rows : r.season_id = s.id}

(* C25: once rotation has written SeasonResult rows for a season, no later *)
(* operation (another rotation run, a finalize, a submit or an edit of a   *)
(* forecast, a roster change) adds, removes or changes a SeasonResult row  *)
(* of that season.                                                         *)
C25_ArchivedRowsFrozen ==
    [][\A s \in seasons :
            RowsOf(s, season_results) # {}
                => RowsOf(s, season_results') = RowsOf(s, season_results)]_vars

(* C28: under any interleaving of two rotation runs there is at most one   *)
(* SeasonResult row per season and participant and at most one Season row  *)
(* per season number.                                                      *)
C28_OneRowPerSeasonAndUser ==
    /\ \A x \in season_results, y \in season_results :
            (x.season_id = y.season_id /\ x.user_id = y.user_id) => x = y
    /\ \A x \in seasons, y \in seasons : x.number = y.number => x = y

(* The delivery of participant u whose body runs in the step, if the step  *)
(* is the body of cq_predict_confirm replacing a stored forecast of u.     *)
ReplacesStored(u) ==
    /\ deliveries[u] # <<>>
    /\ deliveries'[u] = Tail(deliveries[u])
    /\ \E f \in forecasts : f.id = Head(deliveries[u]).editing_forecast_id

(* C26: when a participant replaces their forecast, the deletion of the    *)
(* old row and the insertion of the new one are one transaction: the       *)
(* stored state before the step and the one after it, which are all a      *)
(* concurrent reader can see, both hold a forecast of the participant on   *)
(* the tournament, and when the insert fails the old row is still stored.  *)
C26_ReplaceIsAtomic ==
    [][\A u \in Users :
        ReplacesStored(u) =>
            LET old == CHOOSE f \in forecasts :
                           f.id = Head(deliveries[u]).editing_forecast_id
            IN  /\ \E g \in forecasts' :
                        /\ g.user_id = old.user_id
                        /\ g.tournament_id = old.tournament_id
                /\ (\A g \in forecasts' : g.id # nextForecastId)
                        => old \in forecasts']_vars

(* The insert of an edit has failed and the edited forecast is stored.     *)
C26_Witness ==
    /\ last.op = "cq_predict_confirm"
    /\ last.outcome = "insert_failed"
    /\ \E f \in forecasts : f.id = last.arg /\ f.tournament_id = last.tid

(* The slots of forecast f whose player has exactly that rank in results.  *)
HitsOf(f, results) ==
    Cardinality({i \in 1..Len(f.prediction_data) :
                    /\ f.prediction_data[i] \in DOMAIN results
                    /\ results[f.prediction_data[i]] = i})

RECURSIVE SumHits(_, _)
SumHits(S, results) ==
    IF S = {} THEN 0
    ELSE LET f == CHOOSE x \in S : TRUE
         IN  HitsOf(f, results) + SumHits(S \ {f}, results)

C29_RanksOrderedByPoints ==
    \A s \in seasons :
        LET rows == RowsOf(s, season_results)
        IN  /\ {r.rank : r \in rows} = 1..Cardinality(rows)
            /\ \A x \in rows, y \in rows :
                    x.rank < y.rank => x.points >= y.points

(* C30: a rotation run changes no field of a user row (total_points,       *)
(* total_slots, accuracy_rate, avg_error, tournaments_played,              *)
(* exact_guesses, perfect_tournaments), of a tournament or of a forecast   *)
(* (points_earned included); it only adds Season and SeasonResult rows.    *)
C30_RotationOnlyAddsSeasonRows ==
    [][last'.op = "migrate_seasons"
        => /\ users' = users
           /\ tournaments' = tournaments
           /\ forecasts' = forecasts
           /\ seasons \subseteq seasons'
           /\ season_results \subseteq season_results']_vars

(* A rotation has archived a season with a forecast that has no points:    *)
(* the row holds 0 and the forecast is still without points.               *)
C30_Witness ==
    /\ last.op = "migrate_seasons"
    /\ \E r \in season_results, f \in forecasts :
            /\ f.user_id = r.user_id
            /\ f.points_earned = NULL
            /\ r.points = 0
            /\ r.tournaments_played >= 1

C32_TotalPointsMonotone ==
    [][\A u \in Users : users'[u].total_points >= users[u].total_points]_vars

(* A user's total_points has grown with a finalize and the tournament has  *)
(* since been deleted.                                                     *)
C32_Witness ==
    /\ \E u \in Users : users[u].total_points > 0
    /\ tournaments = <<>>

(* C33: when no non-draft tournament exists, the streak calculation for a  *)
(* registered user returns current_streak = 0 and max_streak = 0 to the    *)
(* stats view and both values are the user's cached ones.                  *)
C33_NoEventsYieldZeroStreaks ==
    (/\ calc.kind = "streaks"
     /\ calc.returned
     /\ NonDraft(tournaments) = {})
        => /\ calc.current_streak = 0
           /\ calc.max_streak = 0
           /\ users[calc.user_id].streak_days = 0
           /\ users[calc.user_id].max_streak = 0

(* C34: a stored forecast has points_earned set exactly when its           *)
(* tournament is FINISHED: every forecast of a FINISHED tournament has a   *)
(* score and no forecast of a DRAFT, OPEN or LIVE tournament has one.      *)
C34_PointsIffFinished ==
    \A f \in forecasts :
        f.tournament_id \in DOMAIN tournaments
            => ((f.points_earned # NULL)
                    <=> tournaments[f.tournament_id].status = "FINISHED")

(* C35: every stored forecast is a list of exactly as many players as its  *)
(* tournament has slots, no player twice, whatever selection, confirm and  *)
(* edit callbacks have run.                                                *)
C35_ForecastIsSlotCountDistinct ==
    \A f \in forecasts :
        f.tournament_id \in DOMAIN tournaments
            => /\ Len(f.prediction_data)
                    = PredictionCountOr5(tournaments[f.tournament_id])
               /\ Cardinality(Range(f.prediction_data))
                    = Len(f.prediction_data)

(* C37: the results map stored by the finalize gives the ranks 1 to the    *)
(* slot count, each once, to as many distinct players, whatever result     *)
(* selections the operator made before confirming.                         *)
C37_ResultsAreRanksOfSlotCount ==
    \A t \in DOMAIN tournaments :
        tournaments[t].status = "FINISHED"
            => /\ Cardinality(DOMAIN tournaments[t].results)
                    = PredictionCountOr5(tournaments[t])
               /\ {tournaments[t].results[p] :
                        p \in DOMAIN tournaments[t].results}
                    = 1..PredictionCountOr5(tournaments[t])

(* C36: every OPEN or LIVE tournament has a roster of at least as many     *)
(* players as it has slots, whatever publish, lock, reopen and roster      *)
(* handlers have run.                                                      *)
C36_PublishedRosterCoversSlots ==
    \A tid \in DOMAIN tournaments :
        tournaments[tid].status \in {"OPEN", "LIVE"}
            => Cardinality(tournaments[tid].participants)
                    >= PredictionCountOr5(tournaments[tid])

(* The counters of a user row that the recompute is to reproduce.          *)
Counters(user) ==
    <<user.total_points, user.total_slots, user.tournaments_played,
      user.exact_guesses, user.perfect_tournaments>>

(* C38: a run of the full recompute on a state reached by finalizes (no    *)
(* edit after a finalize, no deletion) leaves every forecast's             *)
(* points_earned and every user's total_points, total_slots,               *)
(* tournaments_played, exact_guesses and perfect_tournaments as they       *)
(* were, and a second run changes nothing the first has written.  Only     *)
(* runs on a state where every forecast of a FINISHED tournament has been  *)
(* scored by a finalize are considered.                                    *)
C38_RecomputeReproducesTotals ==
    [][(/\ last'.op = "recalculate_all_scores"
        /\ \A f \in forecasts :
                /\ f.tournament_id \in DOMAIN tournaments
                /\ tournaments[f.tournament_id].status = "FINISHED"
                    => f.points_earned # NULL)
        => /\ forecasts' = forecasts
           /\ \A u \in Users : Counters(users'[u]) = Counters(users[u])
           /\ RecalculateAllScores([tournaments |-> tournaments',
                                    forecasts |-> forecasts',
                                    users |-> users'])
                = [tournaments |-> tournaments', forecasts |-> forecasts',
                   users |-> users']]_vars

(* C39: for every season n >= 1 and every date d from the start to the    *)
(* end of the window of n, the season number of d is n; the window of      *)
(* season n + 1 starts on the day after the window of n ends, so the       *)
(* windows are disjoint and leave no gap.                                  *)
C39_WindowsRoundTrip ==
    (calc.kind = "window" /\ calc.dates # <<>>)
        => /\ calc.dates[1] <= calc.dates[2]
           /\ calc.next_dates[1] = calc.dates[2] + 1
           /\ (/\ calc.number # NULL
               /\ calc.dates[1] <= calc.date_obj
               /\ calc.date_obj <= calc.dates[2])
                    => calc.number = calc.season_number

(* The last day of the window of a season after the first has been given   *)
(* the number of that season.                                              *)
C39_Witness ==
    /\ calc.kind = "window"
    /\ calc.season_number > 1
    /\ calc.dates # <<>>
    /\ calc.date_obj = calc.dates[2]
    /\ calc.number = calc.season_number

====
